---- MODULE Spec2Model ----
(***************************************************************************)
(* App Update Checker: the persistent store (utils.py) and the             *)
(* orchestration service (service.py) as state machines.                   *)
(*                                                                         *)
(* SpecStore    one process calling load_apps / save_apps / add_app /      *)
(*              update_app / delete_app on the files of the data           *)
(*              directory, with the file system's failures as inputs.      *)
(* SpecService  coroutines running UpdateService.check_app on one service  *)
(*              instance of one event loop.                                *)
(* SpecBatch    check_all_apps and check_and_update over a stored list:    *)
(*              one check_with_progress task per app that is not ignored.  *)
(* SpecBatchLive  SpecBatch with a fair event loop, on lists with more     *)
(*              apps to check than semaphore slots.                        *)
(* SpecDerive   App.status, compare_versions and is_update_available       *)
(*              computed on one app record.                                *)
(* SpecImport   the export and import commands of main.py on a store.      *)
(* SpecCheck    SpecBatch followed by the summary of the check command.    *)
(* SpecDash     the dashboard of tui/: keys and table events of the main   *)
(*              and add-app screens interleaved with the steps of a        *)
(*              refresh and of its check_one coroutines.                   *)
(* SpecDashLive SpecDash with a fair event loop for the refresh.           *)
(* SpecScan     the scan command and the scan screen's Add Selected.       *)
(* SpecCache    UpdateService._get_checker called by the service methods.  *)
(***************************************************************************)
EXTENDS Integers, Sequences, FiniteSets, TLC

VARIABLES
    fs,          \* data directory: file name -> [exists, text]
    pc,          \* position of the storage call in progress ("idle" if none)
    call,        \* the public function called and its argument
    apps,        \* the local list `apps` of the function in progress
    result,      \* value returned by the call
    exc,         \* exception that left the call (<<>> if none)
    depth,       \* nested load_apps frames below the first one
    handler,     \* except clause of load_apps being run
    pre,         \* history: fs when the public function was called
    save_pre,    \* history: fs when save_apps was entered
    bak,         \* history: what _create_backup did in this save_apps
    saved,       \* history: save_apps replaced the primary in this call
    restores,    \* history: copies _restore_backup completed in this call
    copy_failed, \* history: the copy of _restore_backup failed in this call
    _checkers,        \* CheckerRegistry._checkers: the sources with a checker class
    max_concurrent,   \* argument of UpdateService.__init__
    _semaphore,       \* UpdateService._semaphore: its free slots
    _checker_cache,   \* UpdateService._checker_cache: the sources it holds a checker for
    task,             \* the check_app coroutines: [pc, source, info, exc, holds]
    stored,           \* apps.json as load_apps reads it: the list of JSON objects
    batch_pc,         \* position of the check_and_update call in progress
    batch_apps,       \* the list `apps` of check_and_update
    batch_pre,        \* history: `apps` when check_and_update was called
    results,          \* what check_all_apps returned: (position of the app, info)
    callbacks,        \* history: the progress_callback invocations, in order
    passes,           \* check passes started; the clock datetime.now() reads
    last_good,        \* history: version of each app's latest successful check
    subject,          \* the App whose derived values are computed
    derived,          \* the values computed for `subject`
    import_file,      \* the file handed to the import command
    export_file,      \* the file the export command wrote
    import_pre,       \* history: the store when the import command started
    report,           \* what the last import command printed
    batch_call,       \* the service method called and whether it got a callback
    summary,          \* what the check command printed and notified after its pass
    screen_stack,     \* the dashboard's stack of screens, the top one last
    dash_exc,         \* exception that left a dashboard handler ("" if none)
    dash_event,       \* history: the dashboard handler that ran last
    screen_apps,      \* MainScreen.apps: the in-memory list
    is_checking,      \* MainScreen.is_checking: the refresh guard
    running,          \* _check_all_apps coroutines scheduled or running
    refresh_pc,       \* position of the _check_all_apps coroutine
    check_one,        \* the check_one coroutines of the refresh, by index
    added_during,     \* history: ids the add-app screen stored during the refresh
    keys,             \* keys and table events the dashboard handled
    scan_call,        \* the scan import run last and where it stands
    scanned_apps,     \* what scan_installed_apps returned
    scan_pre,         \* history: the store when the scan import started
    _instances,       \* UpdateService._checker_cache: source -> checker instance held
    created,          \* history: checker instances created, by source
    resolved          \* history: the instances _get_checker returned, by source

storeVars == <<fs, pc, call, apps, result, exc, depth, handler, pre, save_pre,
               bak, saved, restores, copy_failed>>

serviceVars == <<_checkers, max_concurrent, _semaphore, _checker_cache, task>>

batchVars == <<batch_call, batch_pc, batch_apps, batch_pre, results, callbacks, passes,
               last_good>>

deriveVars == <<subject, derived>>

importVars == <<import_file, export_file, import_pre, report>>

dashVars == <<screen_stack, dash_exc, dash_event, screen_apps, is_checking, running,
              refresh_pc, check_one, added_during, keys>>

scanVars == <<scan_call, scanned_apps, scan_pre>>

cacheVars == <<_instances, created, resolved>>

frontVars == <<summary, dashVars, scanVars, cacheVars>>

nonStoreVars == <<serviceVars, stored, batchVars, deriveVars, importVars, frontVars>>

nonServiceVars == <<storeVars, stored, batchVars, deriveVars, importVars, frontVars>>

vars == <<storeVars, serviceVars, stored, batchVars, deriveVars, importVars, frontVars>>

----------------------------------------------------------------------------
(* Bounds of the model *)

\* longest app list add_app grows the store to
MaxApps == 3
\* nested load_apps frames the interpreter allows before RecursionError
\* (sys.getrecursionlimit() is 1000 in CPython; the model uses a small one)
RecursionLimit == 3
\* check_app coroutines alive at once
NumTasks == 3
\* check passes run one after the other on the same store
MaxPasses == 2
\* keys and table events a dashboard session handles
MaxKeys == 3

----------------------------------------------------------------------------
(* models.py: App *)

Ids == {"a1", "a2"}
Names == {"n1", "n2"}

\* App objects: an id and the rest of the record, stood for by its name
App == {[id |-> "a1", name |-> "n1"],
        [id |-> "a1", name |-> "n2"],
        [id |-> "a2", name |-> "n1"]}

NoApp == [id |-> "", name |-> ""]

\* the lists callers hand to save_apps: empty, two apps, and three apps of
\* which two share an id (run_import saves what the import file holds)
SaveInputs ==
    {<<>>,
     <<[id |-> "a1", name |-> "n1"], [id |-> "a2", name |-> "n1"]>>,
     <<[id |-> "a1", name |-> "n1"], [id |-> "a2", name |-> "n1"],
       [id |-> "a1", name |-> "n2"]>>}

\* App.to_dict: the JSON object written for an app
to_dict(app) == <<"dict", app.id, app.name>>

\* App.from_dict on a JSON object
from_dict(d) == [id |-> d[2], name |-> d[3]]

----------------------------------------------------------------------------
(* File contents.  A text is a sequence of tokens, each a tuple of strings *)

HEAD         == <<"{\"apps\": [">>
TAIL         == <<"], \"last_updated\": now}">>
EMPTY_OBJECT == <<"{}">>
EMPTY_ARRAY  == <<"[]">>
JSON_STRING  == <<"str">>

Absent == [exists |-> FALSE, text |-> <<>>]
File(text) == [exists |-> TRUE, text |-> text]

\* constants.py
APPS_FILE == "apps.json"
BACKUP_FILE == "apps.json.bak"

get_apps_file == APPS_FILE
get_backup_file == BACKUP_FILE

\* faulty variant: the document is written in place
temp_file_in_place(apps_file) == apps_file

\* save_apps: temp_file = apps_file.with_suffix(".tmp")
temp_file(apps_file) == IF apps_file = "apps.json" THEN "apps.tmp" ELSE apps_file

FileNames == {APPS_FILE, BACKUP_FILE, "apps.tmp"}

\* save_apps, lines 153-162: the document json.dump writes for `apps`
json_dump(l) == <<HEAD>> \o [i \in 1..Len(l) |-> to_dict(l[i])] \o <<TAIL>>

JSONDecodeError == [ok |-> FALSE, kind |-> "", has_apps |-> FALSE, entries |-> <<>>]

\* json.load: the value a text parses to, or JSONDecodeError
json_load(text) ==
    LET n == Len(text) IN
    IF text = <<EMPTY_ARRAY>>
      THEN [ok |-> TRUE, kind |-> "array", has_apps |-> FALSE, entries |-> <<>>]
    ELSE IF text = <<EMPTY_OBJECT>>
      THEN [ok |-> TRUE, kind |-> "object", has_apps |-> FALSE, entries |-> <<>>]
    ELSE IF /\ n >= 2
            /\ text[1] = HEAD /\ text[n] = TAIL
            /\ \A i \in 2..(n - 1) : text[i][1] \in {"dict", "str"}
      THEN [ok |-> TRUE, kind |-> "object", has_apps |-> TRUE,
            entries |-> SubSeq(text, 2, n - 1)]
    ELSE JSONDecodeError

----------------------------------------------------------------------------
(* utils.py: the pure parts *)

LoadOk(l)      == [exc |-> "", apps |-> l]
LoadRaises(e)  == [exc |-> e, apps |-> <<>>]

\* load_apps, lines 109-114: the body of the try block on a primary text.
\* data.get("apps", []) on a value that is no object, and App.from_dict on
\* an entry that is no object, raise AttributeError; a missing "apps" key
\* is read as an empty list.  No statement of the block raises KeyError.
load_body(text) ==
    LET data == json_load(text) IN
    IF ~data.ok THEN LoadRaises("JSONDecodeError")
    ELSE IF data.kind # "object" THEN LoadRaises("AttributeError")
    ELSE IF ~data.has_apps THEN LoadOk(<<>>)
    ELSE IF \E i \in 1..Len(data.entries) : data.entries[i][1] # "dict"
      THEN LoadRaises("AttributeError")
    ELSE LoadOk([i \in 1..Len(data.entries) |-> from_dict(data.entries[i])])

\* load_apps, lines 116 and 127: the exceptions its except clauses catch
handled(e) == e \in {"JSONDecodeError", "KeyError"}

\* The outcomes of shutil.copy2(src, dst): the copy is made; or opening a
\* file fails and dst is untouched; or dst is opened (truncated) and the
\* write fails, the document being smaller than one copy buffer.
CopyOutcomes == {"ok", "denied", "truncated"}

copy2(files, src, dst, outcome) ==
    CASE outcome = "ok"        -> [files EXCEPT ![dst] = files[src]]
      [] outcome = "denied"    -> files
      [] outcome = "truncated" -> [files EXCEPT ![dst] = File(<<>>)]

\* faulty variant: the copy runs from the primary to the backup
restore_copy_reversed(files, outcome) ==
    copy2(files, get_apps_file, get_backup_file, outcome)

\* _restore_backup, line 85: shutil.copy2(backup_file, apps_file)
restore_copy(files, outcome) == copy2(files, get_backup_file, get_apps_file, outcome)

\* faulty variant: the copy runs from the backup to the primary
backup_copy_reversed(files, outcome) ==
    copy2(files, get_backup_file, get_apps_file, outcome)

\* _create_backup, line 63: shutil.copy2(apps_file, backup_file)
backup_copy(files, outcome) == copy2(files, get_apps_file, get_backup_file, outcome)

\* faulty variant: the message does not name the file
RuntimeError_unnamed(h, path) ==
    <<"RuntimeError", "Apps file is corrupted and no backup available.", "">>

\* the messages of the two RuntimeErrors of load_apps, lines 122-125, 133-136
RuntimeError(h, path) ==
    IF h = "KeyError"
    THEN <<"RuntimeError", "Apps file has invalid format. Manual intervention required at:", path>>
    ELSE <<"RuntimeError",
           "Apps file is corrupted and no backup available. Manual intervention required at:",
           path>>

RecursionError == <<"RecursionError", "maximum recursion depth exceeded", "">>
OSError        == <<"OSError", "", "">>
NoExc          == <<>>

HasId(l, id) == \E i \in 1..Len(l) : l[i].id = id

\* faulty variant: the loop compares names instead of ids
add_app_exists_by_name(l, app) == \E i \in 1..Len(l) : l[i].name = app.name

\* add_app, lines 182-185: an entry with the id of `app` is in the loaded list
add_app_exists(l, app) == HasId(l, app.id)

FirstIndex(l, id) == CHOOSE i \in 1..Len(l) : l[i].id = id /\ \A j \in 1..(i - 1) : l[j].id # id

\* faulty variant: every entry from the match on is overwritten
update_app_list_tail(l, app) ==
    IF HasId(l, app.id)
    THEN [i \in 1..Len(l) |-> IF i >= FirstIndex(l, app.id) THEN app ELSE l[i]]
    ELSE l

\* update_app, lines 203-205: the first entry with the id is replaced
update_app_list(l, app) ==
    IF HasId(l, app.id) THEN [l EXCEPT ![FirstIndex(l, app.id)] = app] ELSE l

RECURSIVE Filter(_, _)
Filter(l, id) ==
    IF l = <<>> THEN <<>>
    ELSE IF Head(l).id # id THEN <<Head(l)>> \o Filter(Tail(l), id)
    ELSE Filter(Tail(l), id)

\* delete_app, line 225: [app for app in apps if app.id != app_id]
delete_app_list(l, id) == Filter(l, id)

----------------------------------------------------------------------------
(* Values of the call record and of the result *)

NoValue        == [kind |-> "None", bool |-> FALSE, list |-> <<>>]
Bool(b)     == [kind |-> "bool", bool |-> b, list |-> <<>>]
List(l)     == [kind |-> "list", bool |-> FALSE, list |-> l]

NoCall == [op |-> "", app |-> NoApp, id |-> ""]

----------------------------------------------------------------------------
(* The store's operations *)

InitStore ==
    /\ fs = [f \in FileNames |-> Absent]
    /\ pc = "idle"
    /\ call = NoCall
    /\ apps = <<>>
    /\ result = NoValue
    /\ exc = NoExc
    /\ depth = 0
    /\ handler = ""
    /\ pre = [f \in FileNames |-> Absent]
    /\ save_pre = [f \in FileNames |-> Absent]
    /\ bak = ""
    /\ saved = FALSE
    /\ restores = 0
    /\ copy_failed = FALSE

\* a public function is entered: its frame is fresh
Enter(c, l, at) ==
    /\ pc = "idle"
    /\ call' = c
    /\ apps' = l
    /\ pc' = at
    /\ pre' = fs
    /\ UNCHANGED <<fs, result, exc, depth, handler, save_pre, bak, saved,
                   restores, copy_failed>>
    /\ UNCHANGED nonStoreVars

\* the call returns `r`
Returns(r) ==
    /\ pc' = "done"
    /\ result' = r

\* the exception `e` leaves the call
Raises(e) ==
    /\ pc' = "raised"
    /\ exc' = e

\* the texts a primary file can be damaged to outside the program: cut
\* short, emptied, an object without "apps", an array, a string among the apps
Damaged ==
    {<<>>, <<HEAD>>, <<EMPTY_OBJECT>>, <<EMPTY_ARRAY>>, <<HEAD, JSON_STRING, TAIL>>}

\* the primary file is damaged between two calls (disk fault, manual edit)
Damage(text) ==
    /\ pc = "idle"
    /\ fs[get_apps_file].exists
    /\ fs[get_apps_file].text # text
    /\ fs' = [fs EXCEPT ![get_apps_file] = File(text)]
    /\ UNCHANGED <<pc, call, apps, result, exc, depth, handler, pre, save_pre,
                   bak, saved, restores, copy_failed>>
    /\ UNCHANGED nonStoreVars

CallLoadApps ==
    /\ pc = "idle"
    /\ Enter([NoCall EXCEPT !.op = "load_apps"], <<>>, "load_apps")

CallSaveApps(l) ==
    /\ pc = "idle"
    /\ Enter([NoCall EXCEPT !.op = "save_apps"], l, "save_apps")

\* what a file holds as an app list, if it holds one
Holds(f) ==
    IF f.exists /\ load_body(f.text).exc = "" THEN load_body(f.text).apps ELSE <<>>

\* the list never grows beyond MaxApps
CallAddApp(app) ==
    /\ \A f \in {get_apps_file, get_backup_file} :
           Len(Holds(fs[f])) < MaxApps \/ HasId(Holds(fs[f]), app.id)
    /\ Enter([NoCall EXCEPT !.op = "add_app", !.app = app], <<>>, "load_apps")

CallUpdateApp(app) ==
    /\ pc = "idle"
    /\ Enter([NoCall EXCEPT !.op = "update_app", !.app = app], <<>>, "load_apps")

CallDeleteApp(id) ==
    /\ pc = "idle"
    /\ Enter([NoCall EXCEPT !.op = "delete_app", !.id = id], <<>>, "load_apps")

\* load_apps returns `l` to the function that called it
Loaded(l) ==
    /\ apps' = l
    /\ IF call.op = "load_apps"
       THEN Returns(List(l)) /\ UNCHANGED exc
       ELSE pc' = call.op /\ UNCHANGED <<result, exc>>

\* load_apps, lines 102-136: one frame, up to its return, its raise or its
\* call of _restore_backup
load_apps ==
    /\ pc = "load_apps"
    /\ LET apps_file == fs[get_apps_file]
           r == load_body(apps_file.text)
       IN  IF ~apps_file.exists THEN Loaded(<<>>) /\ UNCHANGED handler
           ELSE IF r.exc = "" THEN Loaded(r.apps) /\ UNCHANGED handler
           ELSE IF handled(r.exc)
             THEN /\ pc' = "_restore_backup"
                  /\ handler' = r.exc
                  /\ UNCHANGED <<apps, result, exc>>
           ELSE Raises(<<r.exc, "", "">>) /\ UNCHANGED <<apps, result, handler>>
    /\ UNCHANGED <<fs, call, depth, pre, save_pre, bak, saved, restores, copy_failed>>
    /\ UNCHANGED nonStoreVars

\* _restore_backup, lines 77-90, and what the except clause of load_apps does
\* with its answer: call load_apps again (one more frame), or raise
\* RuntimeError
_restore_backup ==
    /\ pc = "_restore_backup"
    /\ IF ~fs[get_backup_file].exists
       THEN /\ Raises(RuntimeError(handler, get_apps_file))
            /\ UNCHANGED <<fs, depth, restores, copy_failed>>
       ELSE \E outcome \in CopyOutcomes :
            /\ fs' = restore_copy(fs, outcome)
            /\ IF outcome = "ok"
               THEN /\ restores' = restores + 1
                    /\ UNCHANGED copy_failed
                    /\ IF depth + 1 > RecursionLimit
                       THEN Raises(RecursionError) /\ UNCHANGED depth
                       ELSE pc' = "load_apps" /\ depth' = depth + 1 /\ UNCHANGED exc
               ELSE /\ copy_failed' = TRUE
                    /\ Raises(RuntimeError(handler, get_apps_file))
                    /\ UNCHANGED <<depth, restores>>
    /\ UNCHANGED <<call, apps, result, handler, pre, save_pre, bak, saved>>
    /\ UNCHANGED nonStoreVars

\* add_app, lines 182-188, after its load_apps
add_app ==
    /\ pc = "add_app"
    /\ IF add_app_exists(apps, call.app)
       THEN Returns(NoValue) /\ UNCHANGED apps
       ELSE /\ apps' = Append(apps, call.app)
            /\ pc' = "save_apps"
            /\ UNCHANGED result
    /\ UNCHANGED <<fs, call, exc, depth, handler, pre, save_pre, bak, saved,
                   restores, copy_failed>>
    /\ UNCHANGED nonStoreVars

\* update_app, lines 203-211, after its load_apps
update_app ==
    /\ pc = "update_app"
    /\ IF HasId(apps, call.app.id)
       THEN /\ apps' = update_app_list(apps, call.app)
            /\ pc' = "save_apps"
            /\ UNCHANGED result
       ELSE Returns(Bool(FALSE)) /\ UNCHANGED apps
    /\ UNCHANGED <<fs, call, exc, depth, handler, pre, save_pre, bak, saved,
                   restores, copy_failed>>
    /\ UNCHANGED nonStoreVars

\* delete_app, lines 223-233, after its load_apps
delete_app ==
    /\ pc = "delete_app"
    /\ IF Len(delete_app_list(apps, call.id)) < Len(apps)
       THEN /\ apps' = delete_app_list(apps, call.id)
            /\ pc' = "save_apps"
            /\ UNCHANGED result
       ELSE Returns(Bool(FALSE)) /\ UNCHANGED apps
    /\ UNCHANGED <<fs, call, exc, depth, handler, pre, save_pre, bak, saved,
                   restores, copy_failed>>
    /\ UNCHANGED nonStoreVars

\* Path.unlink in the except clause of save_apps, lines 169-170
unlink_if_exists(files, f) == [files EXCEPT ![f] = Absent]

\* Path.replace: an atomic rename of src over dst
replace(files, src, dst) ==
    IF src = dst THEN files ELSE [files EXCEPT ![dst] = files[src], ![src] = Absent]

\* the value the public function returns once save_apps has returned
AfterSave ==
    IF call.op \in {"update_app", "delete_app"} THEN Bool(TRUE) ELSE NoValue

\* save_apps, lines 148-151, with _create_backup, lines 55-68: the primary is
\* copied to the backup if it exists; a failed copy is logged and save_apps
\* goes on
_create_backup ==
    /\ pc = "save_apps"
    /\ save_pre' = fs
    /\ IF ~fs[get_apps_file].exists
       THEN bak' = "no primary" /\ UNCHANGED fs
       ELSE \E outcome \in CopyOutcomes :
            /\ fs' = backup_copy(fs, outcome)
            /\ bak' = outcome
    /\ pc' = "open"
    /\ UNCHANGED <<call, apps, result, exc, depth, handler, pre, saved, restores,
                   copy_failed>>
    /\ UNCHANGED nonStoreVars

\* save_apps, line 161: the temporary file is opened for writing (created or
\* emptied), or open raises OSError
save_apps_open ==
    /\ pc = "open"
    /\ \E ok \in BOOLEAN :
         IF ok
         THEN /\ fs' = [fs EXCEPT ![temp_file(get_apps_file)] = File(<<>>)]
              /\ pc' = "write"
              /\ UNCHANGED exc
         ELSE /\ fs' = unlink_if_exists(fs, temp_file(get_apps_file))
              /\ Raises(OSError)
    /\ UNCHANGED <<call, apps, result, depth, handler, pre, save_pre, bak, saved,
                   restores, copy_failed>>
    /\ UNCHANGED nonStoreVars

\* save_apps, lines 161-162: json.dump writes the next piece of the document
\* to the temporary file, the last piece closing it; or the write raises
\* OSError
save_apps_write ==
    /\ pc = "write"
    /\ LET tmp == temp_file(get_apps_file)
           doc == json_dump(apps)
           k   == Len(fs[tmp].text)
       IN  \E ok \in BOOLEAN :
             IF ok
             THEN /\ fs' = [fs EXCEPT ![tmp] = File(SubSeq(doc, 1, k + 1))]
                  /\ pc' = IF k + 1 = Len(doc) THEN "replace" ELSE "write"
                  /\ UNCHANGED exc
             ELSE /\ fs' = unlink_if_exists(fs, tmp)
                  /\ Raises(OSError)
    /\ UNCHANGED <<call, apps, result, depth, handler, pre, save_pre, bak, saved,
                   restores, copy_failed>>
    /\ UNCHANGED nonStoreVars

\* save_apps, lines 164-165: the temporary file is renamed over the primary,
\* or the rename raises OSError
save_apps_replace ==
    /\ pc = "replace"
    /\ \E ok \in BOOLEAN :
         IF ok
         THEN /\ fs' = replace(fs, temp_file(get_apps_file), get_apps_file)
              /\ saved' = TRUE
              /\ Returns(AfterSave)
              /\ UNCHANGED exc
         ELSE /\ fs' = unlink_if_exists(fs, temp_file(get_apps_file))
              /\ Raises(OSError)
              /\ UNCHANGED <<saved, result>>
    /\ UNCHANGED <<call, apps, depth, handler, pre, save_pre, bak, restores,
                   copy_failed>>
    /\ UNCHANGED nonStoreVars

InSave == pc \in {"open", "write", "replace"}

\* the process is interrupted (killed, power loss) inside save_apps: nothing
\* more runs, the files stay as they are
Interrupt ==
    /\ InSave
    /\ pc' = "killed"
    /\ UNCHANGED <<fs, call, apps, result, exc, depth, handler, pre, save_pre,
                   bak, saved, restores, copy_failed>>
    /\ UNCHANGED nonStoreVars

\* the caller takes the result or the exception; the next call may start
Return ==
    /\ pc \in {"done", "raised"}
    /\ pc' = "idle"
    /\ call' = NoCall
    /\ apps' = <<>>
    /\ result' = NoValue
    /\ exc' = NoExc
    /\ depth' = 0
    /\ handler' = ""
    /\ pre' = [f \in FileNames |-> Absent]
    /\ save_pre' = [f \in FileNames |-> Absent]
    /\ bak' = ""
    /\ saved' = FALSE
    /\ restores' = 0
    /\ copy_failed' = FALSE
    /\ UNCHANGED fs
    /\ UNCHANGED nonStoreVars

NextStore ==
    \/ CallLoadApps
    \/ \E l \in SaveInputs : CallSaveApps(l)
    \/ \E app \in App : CallAddApp(app)
    \/ \E app \in App : CallUpdateApp(app)
    \/ \E id \in Ids : CallDeleteApp(id)
    \/ \E text \in Damaged : Damage(text)
    \/ load_apps
    \/ _restore_backup
    \/ add_app
    \/ update_app
    \/ delete_app
    \/ _create_backup
    \/ save_apps_open
    \/ save_apps_write
    \/ save_apps_replace
    \/ Interrupt
    \/ Return

----------------------------------------------------------------------------
(* Properties of the store *)

Primary == fs[get_apps_file]
Backup  == fs[get_backup_file]
Temp    == fs["apps.tmp"]

Ended == pc \in {"done", "raised"}

\* the list load_apps returned to a call that has returned: the primary's,
\* or the backup's once the primary was restored from it
LoadedList ==
    IF restores > 0 THEN Holds(pre[get_backup_file]) ELSE Holds(pre[get_apps_file])

Malformed(f) == f.exists /\ load_body(f.text).exc = "JSONDecodeError"

\* a complete document with its "apps" list
ValidDocument(f) ==
    f.exists /\ load_body(f.text).exc = "" /\ json_load(f.text).has_apps

\* parses as JSON but has no "apps" key, is no object, or has an entry that is no object
LacksStructure(f) ==
    /\ f.exists
    /\ json_load(f.text).ok
    /\ \/ load_body(f.text).exc # ""
       \/ ~json_load(f.text).has_apps

SaveEntered == bak # ""

NewDocument == File(json_dump(apps))

RECURSIVE Count(_, _)
Count(l, id) ==
    IF l = <<>> THEN 0
    ELSE (IF Head(l).id = id THEN 1 ELSE 0) + Count(Tail(l), id)

\* C1: from the moment save_apps starts writing until it ends or is
\* interrupted, the primary file is the complete pre-save content or the
\* complete new document; until the rename it is the pre-save content, and
\* neither it nor the backup carries anything of the new document.
C1_SaveIsAtomic ==
    SaveEntered =>
        /\ Primary \in {save_pre[get_apps_file], NewDocument}
        /\ saved => Primary = NewDocument
        /\ ~saved =>
            /\ Primary = save_pre[get_apps_file]
            /\ Backup \in {save_pre[get_backup_file], save_pre[get_apps_file], File(<<>>)}

\* C1 witness: save_apps interrupted while the temporary file holds a part
\* of a new document that differs from the existing primary
C1_Witness ==
    /\ pc = "killed"
    /\ Primary.exists
    /\ Primary # NewDocument
    /\ Temp.exists
    /\ Len(Temp.text) \in 1..(Len(json_dump(apps)) - 1)

\* C2 as stated: load_apps on a malformed primary with a valid backup
\* returns the backup's list, leaves the primary equal to the backup and
\* raises nothing.
C2_AsStated ==
    (/\ Ended
     /\ call.op = "load_apps"
     /\ Malformed(pre[get_apps_file])
     /\ ValidDocument(pre[get_backup_file]))
    => /\ pc = "done"
       /\ result = List(Holds(pre[get_backup_file]))
       /\ Primary = pre[get_backup_file]
       /\ Primary = Backup

\* C2 amended: the same, provided the copy of the backup over the primary
\* succeeds.
C2_RestoresFromBackup ==
    (/\ Ended
     /\ call.op = "load_apps"
     /\ Malformed(pre[get_apps_file])
     /\ ValidDocument(pre[get_backup_file])
     /\ ~copy_failed)
    => /\ pc = "done"
       /\ result = List(Holds(pre[get_backup_file]))
       /\ Primary = pre[get_backup_file]
       /\ Primary = Backup

\* C2 witness: a load that restored a non-empty list from the backup
C2_Witness ==
    /\ pc = "done"
    /\ call.op = "load_apps"
    /\ Malformed(pre[get_apps_file])
    /\ ValidDocument(pre[get_backup_file])
    /\ restores = 1
    /\ result.list # <<>>

\* the case of C3: the primary is malformed and there is no backup, or the
\* copy of the backup over the primary fails
NoRecovery ==
    /\ Ended
    /\ call.op = "load_apps"
    /\ Malformed(pre[get_apps_file])
    /\ \/ ~pre[get_backup_file].exists
       \/ copy_failed /\ restores = 0

C4_AsStated ==
    /\ restores <= 1
    /\ depth <= 1
    /\ (pc = "raised" /\ restores >= 1 /\ exc[1] # "OSError")
          => exc = RuntimeError(handler, APPS_FILE)

\* C5 as stated: a primary that parses but lacks the expected structure is
\* handled like malformed JSON: load_apps returns only after restoring from
\* the backup, and raises nothing but the data-corruption error.
C5_AsStated ==
    (/\ Ended
     /\ call.op = "load_apps"
     /\ LacksStructure(pre[get_apps_file]))
    => /\ pc = "done" => restores >= 1
       /\ pc = "raised" => exc[1] = "RuntimeError"

\* C6 as stated: after a successful save_apps made while a primary existed,
\* the backup equals the pre-save primary, and differs from the new primary
\* when the saved document differs.
C6_AsStated ==
    (pc = "done" /\ saved /\ save_pre[get_apps_file].exists)
    => /\ Backup = save_pre[get_apps_file]
       /\ NewDocument # save_pre[get_apps_file] => Backup # Primary

\* C6 amended: after a successful save_apps whose backup copy succeeded (or
\* that found no primary to copy), the backup equals the pre-save primary:
\* it is one save behind, and differs from the new primary when the saved
\* document differs.
C6_BackupOneSaveBehind ==
    (pc = "done" /\ saved /\ bak \in {"ok", "no primary"})
    => /\ Backup = save_pre[get_apps_file]
       /\ Primary = NewDocument
       /\ NewDocument # save_pre[get_apps_file] => Backup # Primary

\* C6 witness: a save over an existing, different primary with its backup taken
C6_Witness ==
    /\ pc = "done"
    /\ saved
    /\ bak = "ok"
    /\ ValidDocument(save_pre[get_apps_file])
    /\ save_pre[get_backup_file] # save_pre[get_apps_file]
    /\ Backup # Primary

\* C7: add_app with an id that load_apps found stored changes no file
\* and saves nothing; with a new id it appends the app; either way the store
\* then holds as many entries with that id as before, or one if it held none.
C7_AddIsIdempotent ==
    (pc = "done" /\ call.op = "add_app")
    => LET before == LoadedList
           after  == Holds(Primary)
           id     == call.app.id
       IN  /\ HasId(before, id) =>
                /\ after = before
                /\ ~saved /\ ~SaveEntered
                /\ Backup = pre[get_backup_file]
                /\ restores = 0 => Primary = pre[get_apps_file]
           /\ ~HasId(before, id) => saved /\ after = Append(before, call.app)
           /\ Count(after, id) = IF HasId(before, id) THEN Count(before, id) ELSE 1

\* C7 witness: an app added under an id stored once with another name: the
\* first entry stays
C7_Witness ==
    /\ pc = "done"
    /\ call.op = "add_app"
    /\ Count(LoadedList, call.app.id) = 1
    /\ \A i \in 1..Len(LoadedList) : LoadedList[i] # call.app
    /\ Holds(Primary) = LoadedList

\* the id update_app or delete_app looks for
TargetId == IF call.op = "update_app" THEN call.app.id ELSE call.id

\* what a returned update_app / delete_app did to the stored entries
TargetOnly ==
    LET before == LoadedList
        after  == Holds(Primary)
    IN  /\ result.bool <=> HasId(before, TargetId)
        /\ result.bool =>
             /\ saved
             /\ Filter(after, TargetId) = Filter(before, TargetId)
             /\ call.op = "delete_app" => after = Filter(before, TargetId)
             /\ call.op = "update_app" =>
                  /\ Len(after) = Len(before)
                  /\ \A i \in 1..Len(before) :
                        \/ after[i] = before[i]
                        \/ before[i].id = TargetId /\ after[i] = call.app
                  /\ \E i \in 1..Len(after) : after[i] = call.app

\* C8 as stated: update_app / delete_app return true exactly when the id was
\* stored; on false nothing is saved and the primary and the backup are
\* unchanged; on true only entries with that id are replaced or removed.
C8_AsStated ==
    (pc = "done" /\ call.op \in {"update_app", "delete_app"})
    => /\ TargetOnly
       /\ ~result.bool =>
            /\ ~saved /\ ~SaveEntered
            /\ Primary = pre[get_apps_file]
            /\ Backup = pre[get_backup_file]

\* C8 amended: the same, except that on false the primary is unchanged only
\* if load_apps did not restore it: an unreadable primary has been replaced
\* by the backup.
C8_TargetOnly ==
    (pc = "done" /\ call.op \in {"update_app", "delete_app"})
    => /\ TargetOnly
       /\ ~result.bool =>
            /\ ~saved /\ ~SaveEntered
            /\ Backup = pre[get_backup_file]
            /\ restores = 0 => Primary = pre[get_apps_file]
            /\ restores > 0 => Primary = pre[get_backup_file]

\* C8 witness: a call that returned true on a list with two other entries
\* around the target, or one that returned false on a non-empty list
C8_Witness ==
    /\ pc = "done"
    /\ call.op \in {"update_app", "delete_app"}
    /\ Len(LoadedList) = 3
    /\ LoadedList[2].id = TargetId
    /\ result.bool
    /\ Holds(Primary) # LoadedList

----------------------------------------------------------------------------
(* service.py: UpdateService.check_app on one service instance.  A step is *)
(* what a coroutine runs between two suspensions of the event loop.        *)

\* models.py: AppSource
AppSource == {"winget", "github", "custom", "homebrew"}

\* constants.py
MAX_CONCURRENT_CHECKS == 5

Tasks == 1..NumTasks

\* Optional[str]: None, or a string given by its parts
Null == <<>>
Str(x) == <<x>>

\* models.py: UpdateInfo
UpdateInfo(latest_version, release_url, error) ==
    [latest_version |-> latest_version, release_url |-> release_url, error |-> error]

NoInfo == UpdateInfo(Null, Null, Null)

\* what a checker's check returns: a version found, or an error-carrying result
CheckerInfos ==
    {UpdateInfo(Str("2.0"), Str("https://releases"), Null),
     UpdateInfo(Null, Null, Str("Timeout while checking winget"))}

\* what a checker's check raises, should it raise
CheckerExceptions ==
    {[class |-> "ValueError", msg |-> "bad response"],
     [class |-> "TimeoutError", msg |-> "timed out"]}

NoException == [class |-> "", msg |-> ""]

\* the classes `except Exception` catches
ExceptionClasses == {"Exception", "ValueError", "TimeoutError", "RuntimeError", "OSError"}

\* faulty variant: only a timeout is caught
caught_timeout_only(e) == e.class = "TimeoutError"

\* check_app, line 73: except Exception
caught(e) == e.class \in ExceptionClasses

\* check_app, lines 64-67: the result when no checker is available
no_checker_info(source) ==
    UpdateInfo(Null, Null, <<"No checker available for source: ", source>>)

\* check_app, lines 75-78: the result made of a caught exception
error_info(e) == UpdateInfo(Null, Null, Str(e.msg))

\* faulty variant: one slot too many
semaphore_slots_plus_one(n) == n + 1

\* __init__, line 32: asyncio.Semaphore(max_concurrent)
semaphore_slots(n) == n

\* _get_checker, lines 46-49: the cache after resolving `source`
cache_after(cache, source) ==
    IF source \notin cache /\ source \in _checkers THEN cache \cup {source} ELSE cache

IdleTask == [pc |-> "idle", source |-> "", info |-> NoInfo, raised |-> NoException,
             holds |-> FALSE]

\* The registry holds the four checker classes once the package is imported
\* (checkers/__init__.py, lines 75-78); a registry without the homebrew
\* class stands for a source whose class was never registered.
InitService ==
    /\ _checkers \in {AppSource, AppSource \ {"homebrew"}}
    /\ max_concurrent \in {1, 2, MAX_CONCURRENT_CHECKS}
    /\ _semaphore = semaphore_slots(max_concurrent)
    /\ _checker_cache = {}
    /\ task = [t \in Tasks |-> IdleTask]

\* the sources of the apps checked
CheckedSources == {"github", "homebrew"}

\* check_app, lines 61-69: a caller (check_all_apps, check_and_update, the
\* dashboard, the command line) starts check_app for an app of `source`; it
\* runs to its return without a checker, to the checker's check with a slot,
\* or to the wait for a slot
check_app_enter(t, source) ==
    /\ task[t].pc = "idle"
    /\ _checker_cache' = cache_after(_checker_cache, source)
    /\ IF source \notin _checker_cache'
       THEN /\ task' = [task EXCEPT ![t] = [IdleTask EXCEPT !.pc = "done", !.source = source,
                                                         !.info = no_checker_info(source)]]
            /\ UNCHANGED _semaphore
       ELSE IF _semaphore > 0
       THEN /\ task' = [task EXCEPT ![t] = [IdleTask EXCEPT !.pc = "checking",
                                                         !.source = source, !.holds = TRUE]]
            /\ _semaphore' = _semaphore - 1
       ELSE /\ task' = [task EXCEPT ![t] = [IdleTask EXCEPT !.pc = "waiting",
                                                         !.source = source]]
            /\ UNCHANGED _semaphore
    /\ UNCHANGED <<_checkers, max_concurrent>>

check_app(t, source) == check_app_enter(t, source) /\ UNCHANGED nonServiceVars

\* check_app, line 69: a waiting coroutine gets a slot that was released
acquire(t) ==
    /\ task[t].pc = "waiting"
    /\ _semaphore > 0
    /\ _semaphore' = _semaphore - 1
    /\ task' = [task EXCEPT ![t].pc = "checking", ![t].holds = TRUE]
    /\ UNCHANGED <<_checkers, max_concurrent, _checker_cache>>
    /\ UNCHANGED nonServiceVars

\* faulty variant: leaving the `async with` block frees no slot
release_nothing(slots) == slots

\* check_app, line 69: leaving the `async with` block frees the slot
release(slots) == slots + 1

\* check_app, line 72: the checker's check returns `info`; the slot is released
check_app_return(t, info) ==
    /\ task[t].pc = "checking"
    /\ _semaphore' = release(_semaphore)
    /\ task' = [task EXCEPT ![t].pc = "done", ![t].info = info, ![t].holds = FALSE]
    /\ UNCHANGED <<_checkers, max_concurrent, _checker_cache>>

check_returns(t, info) == check_app_return(t, info) /\ UNCHANGED nonServiceVars

\* check_app, lines 73-78: the checker's check raises `e`; the slot is
\* released, and a caught exception becomes the result
check_app_except(t, e) ==
    /\ task[t].pc = "checking"
    /\ _semaphore' = release(_semaphore)
    /\ IF caught(e)
       THEN task' = [task EXCEPT ![t].pc = "done", ![t].info = error_info(e),
                                 ![t].raised = e, ![t].holds = FALSE]
       ELSE task' = [task EXCEPT ![t].pc = "raised", ![t].raised = e, ![t].holds = FALSE]
    /\ UNCHANGED <<_checkers, max_concurrent, _checker_cache>>

check_raises(t, e) == check_app_except(t, e) /\ UNCHANGED nonServiceVars

\* the caller takes the result of a finished check_app
collect(t) ==
    /\ task[t].pc \in {"done", "raised"}
    /\ task' = [task EXCEPT ![t] = IdleTask]
    /\ UNCHANGED <<_checkers, max_concurrent, _semaphore, _checker_cache>>
    /\ UNCHANGED nonServiceVars

NextService ==
    \/ \E t \in Tasks, source \in CheckedSources : check_app(t, source)
    \/ \E t \in Tasks : acquire(t)
    \/ \E t \in Tasks, info \in CheckerInfos : check_returns(t, info)
    \/ \E t \in Tasks, e \in CheckerExceptions : check_raises(t, e)
    \/ \E t \in Tasks : collect(t)

----------------------------------------------------------------------------
(* models.py: the App record with the fields the batch check, the derived  *)
(* values and the import command read and write                            *)

\* isinstance(val, str) on a JSON value: Null is null, anything else is a
\* string given by its parts
IsStr(val) == val # Null

\* bool(x) of an Optional[str], where a string is one value
Present(val) == val # Null /\ val[1] # ""

\* an App as the `add` command creates it
Tracked(id, name, source, ignored) ==
    [id |-> id, name |-> name, source |-> source, installed_version |-> Str("1.0"),
     latest_version |-> Null, ignored |-> ignored, last_checked |-> Null,
     last_error |-> Null, release_url |-> Null, winget_id |-> Null,
     github_repo |-> Null, homebrew_formula |-> Null]

\* App.to_dict, lines 65-82: the JSON object of an app
App_to_dict(app) ==
    [id |-> Str(app.id), name |-> Str(app.name), source |-> Str(app.source),
     installed_version |-> app.installed_version, latest_version |-> app.latest_version,
     ignored |-> app.ignored, last_checked |-> app.last_checked,
     last_error |-> app.last_error, release_url |-> app.release_url,
     winget_id |-> app.winget_id, github_repo |-> app.github_repo,
     homebrew_formula |-> app.homebrew_formula]

\* from_dict, lines 94-98: the value of a key when it is a string, else None
_get_str(val) == IF IsStr(val) THEN val ELSE Null

\* App.from_dict, lines 84-123; `uuid` is what uuid.uuid4() would return
App_from_dict(data, uuid) ==
    [id |-> IF IsStr(data.id) /\ data.id[1] # "" THEN data.id[1] ELSE uuid,
     name |-> IF IsStr(data.name) THEN data.name[1] ELSE "",
     source |-> IF IsStr(data.source) /\ data.source[1] \in AppSource
                THEN data.source[1] ELSE "custom",
     installed_version |-> _get_str(data.installed_version),
     latest_version |-> _get_str(data.latest_version),
     ignored |-> data.ignored,
     last_checked |-> _get_str(data.last_checked),
     last_error |-> _get_str(data.last_error),
     release_url |-> _get_str(data.release_url),
     winget_id |-> _get_str(data.winget_id),
     github_repo |-> _get_str(data.github_repo),
     homebrew_formula |-> _get_str(data.homebrew_formula)]

\* the ids uuid.uuid4() hands out, one per position of the list being read
uuid4(i) == "uuid" \o ToString(i)

\* save_apps, line 154: [app.to_dict() for app in apps]
dicts_of(l) == [i \in 1..Len(l) |-> App_to_dict(l[i])]

\* load_apps, line 114: [App.from_dict(app_data) for app_data in data.get("apps", [])]
apps_of(ds) == [i \in 1..Len(ds) |-> App_from_dict(ds[i], uuid4(i))]

----------------------------------------------------------------------------
(* service.py: check_all_apps and check_and_update, and the `check`        *)
(* command of main.py that runs them on the loaded store.  The coroutine   *)
(* check_with_progress of the app at position i of the list is task i.     *)

\* the stores the check command finds: more apps than slots; an ignored app
\* and an app of a source without a checker; an ignored app whose id a
\* later app repeats (the import command stores what its file holds)
BatchLists ==
    {<<Tracked("a1", "n1", "github", FALSE), Tracked("a2", "n2", "github", FALSE),
       Tracked("a3", "n3", "github", FALSE)>>,
     <<Tracked("a1", "n1", "github", TRUE), Tracked("a2", "n2", "homebrew", FALSE),
       Tracked("a3", "n3", "github", FALSE)>>,
     <<Tracked("a1", "n1", "github", TRUE), Tracked("a1", "n2", "github", FALSE),
       Tracked("a2", "n3", "github", FALSE)>>}

\* what a checker's check raises during a batch, should it raise
BatchExceptions == {[class |-> "ValueError", msg |-> "bad response"]}

NoBatchCall == [op |-> "", progress_callback |-> FALSE]

InitBatch ==
    /\ batch_call = NoBatchCall
    /\ batch_pc = "idle"
    /\ batch_apps = <<>>
    /\ batch_pre = <<>>
    /\ results = <<>>
    /\ callbacks = <<>>
    /\ passes = 0
    /\ last_good = [t \in Tasks |-> Null]

\* datetime.now().isoformat() during the given pass
now(pass) == Str(ToString(pass))

\* faulty variant: a task for every app of the list
tasks_of_all(l) == 1..Len(l)

\* check_all_apps, lines 107-111: the positions a task is made for
tasks_of(l) == {i \in 1..Len(l) : ~l[i].ignored}

\* check_with_progress, line 103: the index handed to the callback by the
\* task of position i (enumerate counts from 0)
callback_index(i) == (i - 1) + 1

\* check_with_progress, lines 102-103
callbacks_after(i) ==
    IF batch_call.progress_callback
    THEN Append(callbacks, [app |-> i, index |-> callback_index(i),
                            total |-> Len(batch_apps)])
    ELSE callbacks

\* a service method starts on the loaded store and runs to asyncio.gather
enter_batch(op, progress_callback) ==
    /\ batch_pc \in {"idle", "done"}
    /\ passes < MaxPasses
    /\ stored # <<>>
    /\ batch_call' = [op |-> op, progress_callback |-> progress_callback]
    /\ batch_apps' = apps_of(stored)
    /\ batch_pre' = apps_of(stored)
    /\ results' = <<>>
    /\ callbacks' = <<>>
    /\ passes' = passes + 1
    /\ batch_pc' = "gather"
    /\ UNCHANGED <<storeVars, serviceVars, stored, last_good, deriveVars, importVars, frontVars>>

\* main.py, run_check, lines 330-358: apps = load_apps(), then
\* service.check_and_update(apps), lines 127-130, up to the gather
run_check ==
    /\ batch_pc \in {"idle", "done"}
    /\ enter_batch("check_and_update", FALSE)

\* check_all_apps, lines 94-114, called without a list, up to the gather
check_all_apps(progress_callback) ==
    /\ batch_pc \in {"idle", "done"}
    /\ enter_batch("check_all_apps", progress_callback)

\* check_with_progress, line 100: the task of position i starts, after the
\* tasks gather made before it, and runs check_app to its first suspension
\* or to its return
check_with_progress(i) ==
    /\ batch_pc = "gather"
    /\ i \in tasks_of(batch_apps)
    /\ \A j \in tasks_of(batch_apps) : j < i => task[j].pc # "idle"
    /\ check_app_enter(i, batch_apps[i].source)
    /\ callbacks' = IF task'[i].pc = "done" THEN callbacks_after(i) ELSE callbacks
    /\ UNCHANGED <<batch_call, batch_pc, batch_apps, batch_pre, results, passes, last_good>>
    /\ UNCHANGED <<storeVars, stored, deriveVars, importVars, frontVars>>

\* check_with_progress, lines 100-105: the checker returned, check_app
\* returns and the callback runs
check_with_progress_returns(i, info) ==
    /\ batch_pc = "gather"
    /\ check_app_return(i, info)
    /\ callbacks' = callbacks_after(i)
    /\ UNCHANGED <<batch_call, batch_pc, batch_apps, batch_pre, results, passes, last_good>>
    /\ UNCHANGED <<storeVars, stored, deriveVars, importVars, frontVars>>

\* check_with_progress, lines 100-105: the checker raised, check_app turns
\* the exception into a result and the callback runs
check_with_progress_except(i, e) ==
    /\ batch_pc = "gather"
    /\ check_app_except(i, e)
    /\ callbacks' = IF caught(e) THEN callbacks_after(i) ELSE callbacks
    /\ UNCHANGED <<batch_call, batch_pc, batch_apps, batch_pre, results, passes, last_good>>
    /\ UNCHANGED <<storeVars, stored, deriveVars, importVars, frontVars>>

RECURSIVE Ascending(_)
\* the members of a set of positions, in the order of the list
Ascending(S) ==
    IF S = {} THEN <<>>
    ELSE LET m == CHOOSE x \in S : \A y \in S : x <= y IN <<m>> \o Ascending(S \ {m})

\* check_all_apps, line 114: asyncio.gather returns one (app, info) pair per
\* task, in the order the tasks were handed to it
gathered ==
    LET order == Ascending(tasks_of(batch_apps)) IN
    [k \in 1..Len(order) |-> [app |-> order[k], info |-> task[order[k]].info]]

all_done == \A i \in tasks_of(batch_apps) : task[i].pc = "done"

\* check_all_apps, lines 113-116: every task is done and the call returns
check_all_apps_returns ==
    /\ batch_pc = "gather"
    /\ batch_call.op = "check_all_apps"
    /\ all_done
    /\ results' = gathered
    /\ task' = [t \in Tasks |-> IdleTask]
    /\ batch_pc' = "done"
    /\ UNCHANGED <<_checkers, max_concurrent, _semaphore, _checker_cache>>
    /\ UNCHANGED <<batch_call, batch_apps, batch_pre, callbacks, passes, last_good>>
    /\ UNCHANGED <<storeVars, stored, deriveVars, importVars, frontVars>>

\* faulty variant: a result without a version leaves latest_version alone
written_version_kept(old, info) ==
    IF info.latest_version = Null THEN old ELSE info.latest_version

\* check_and_update, line 135
written_version(old, info) == info.latest_version

RECURSIVE apply_results(_, _, _)
\* check_and_update, lines 132-139: for each pair, the first app of the list
\* with the id of the pair's app takes the fields of the info
apply_results(l, rs, stamp) ==
    IF rs = <<>> THEN l
    ELSE LET r == Head(rs)
             i == FirstIndex(l, l[r.app].id)
             updated == [l[i] EXCEPT
                            !.latest_version = written_version(l[i].latest_version, r.info),
                            !.release_url = r.info.release_url,
                            !.last_error = r.info.error,
                            !.last_checked = stamp]
         IN apply_results([l EXCEPT ![i] = updated], Tail(rs), stamp)

\* a check that succeeded: it carries a version and no error
succeeded(info) == info.error = Null /\ info.latest_version # Null

\* what save_apps does at the end of a pass: the document is replaced, or
\* an OSError leaves it as it was
SaveOutcomes == {"saved", "OSError"}

\* check_and_update, lines 130-142: the gather returns, the results are
\* written into the list, the list is saved and returned
check_and_update_returns(outcome) ==
    /\ batch_pc = "gather"
    /\ batch_call.op = "check_and_update"
    /\ all_done
    /\ results' = gathered
    /\ batch_apps' = apply_results(batch_apps, results', now(passes))
    /\ last_good' = [t \in Tasks |->
                        IF t \in tasks_of(batch_apps) /\ succeeded(task[t].info)
                        THEN task[t].info.latest_version ELSE last_good[t]]
    /\ task' = [t \in Tasks |-> IdleTask]
    /\ IF outcome = "saved"
       THEN stored' = dicts_of(batch_apps') /\ batch_pc' = "done"
       ELSE UNCHANGED stored /\ batch_pc' = "raised"
    /\ UNCHANGED <<_checkers, max_concurrent, _semaphore, _checker_cache>>
    /\ UNCHANGED <<batch_call, batch_pre, callbacks, passes>>
    /\ UNCHANGED <<storeVars, deriveVars, importVars, frontVars>>

\* run_check, lines 342-355: what progress_callback does with a pair: it
\* appends the app to updates_available when the check found a version that
\* differs from the installed one
appends_update(app, info) ==
    /\ ~app.ignored
    /\ ~Present(info.error)
    /\ Present(info.latest_version)
    /\ Present(app.installed_version)
    /\ info.latest_version # app.installed_version

\* run_check, lines 340-360: updates_available after the pass: the apps of
\* the callback's invocations that it appended
updates_available ==
    LET info_of(i) == (CHOOSE k \in 1..Len(results) : results[k].app = i)
        kept == SelectSeq(callbacks,
                          LAMBDA c : appends_update(batch_pre[c.app], results[info_of(c.app)].info))
    IN [k \in 1..Len(kept) |-> kept[k].app]

NoSummary == [pass |-> 0, json |-> FALSE, notify |-> FALSE, updates_count |-> 0,
              listed |-> <<>>, all_up_to_date |-> FALSE, notification |-> ""]

\* run_check, lines 362-397: after asyncio.run returned, the summary is
\* printed as JSON or as text, and with --notify a notification is sent
run_check_summary(json, notify) ==
    /\ batch_pc = "done"
    /\ batch_call.op = "check_and_update"
    /\ summary.pass # passes
    /\ summary' = [pass |-> passes, json |-> json, notify |-> notify,
                   updates_count |-> Len(updates_available),
                   listed |-> updates_available,
                   all_up_to_date |-> ~json /\ updates_available = <<>>,
                   notification |-> IF ~notify THEN ""
                                    ELSE IF updates_available # <<>>
                                    THEN "notify_updates_available"
                                    ELSE "notify_all_up_to_date"]
    /\ UNCHANGED <<storeVars, serviceVars, stored, batchVars, deriveVars, importVars>>
    /\ UNCHANGED <<dashVars, scanVars, cacheVars>>

NextBatch ==
    \/ run_check
    \/ \E progress_callback \in BOOLEAN : check_all_apps(progress_callback)
    \/ \E t \in Tasks : check_with_progress(t)
    \/ \E t \in Tasks : acquire(t)
    \/ \E t \in Tasks, info \in CheckerInfos : check_with_progress_returns(t, info)
    \/ \E t \in Tasks, e \in BatchExceptions : check_with_progress_except(t, e)
    \/ check_all_apps_returns
    \/ \E outcome \in SaveOutcomes : check_and_update_returns(outcome)

\* the check command: the pass and its summary
NextCheck ==
    \/ NextBatch
    \/ \E json \in BOOLEAN, notify \in BOOLEAN : run_check_summary(json, notify)

----------------------------------------------------------------------------
(* models.py: App.status, and utils.py: parse_version, compare_versions,   *)
(* is_update_available.  In this part a Python string is the sequence of   *)
(* its characters, so Str(<<>>) is the empty string and Null is None.      *)

\* the version strings the derived values are computed for:
\* "", "1.2", "1.2.0", "1.10", "1.9", "v1.2", "1.2-rc", "1.3+b", " 1.2",
\* "x", "-1", "1.x.3"
VersionStrings ==
    {<<>>,
     <<"1", ".", "2">>,
     <<"1", ".", "2", ".", "0">>,
     <<"1", ".", "1", "0">>,
     <<"1", ".", "9">>,
     <<"v", "1", ".", "2">>,
     <<"1", ".", "2", "-", "r", "c">>,
     <<"1", ".", "3", "+", "b">>,
     <<" ", "1", ".", "2">>,
     <<"x">>,
     <<"-", "1">>,
     <<"1", ".", "x", ".", "3">>}

\* the values of last_error: None, "" (str() of an exception without a
\* message, such as asyncio.TimeoutError()), and a message
ErrorStrings == {Null, Str(<<>>), Str(<<"e">>)}

OptionalVersions == {Null} \cup {Str(v) : v \in VersionStrings}

Subjects ==
    [ignored : BOOLEAN, last_error : ErrorStrings,
     installed_version : OptionalVersions, latest_version : OptionalVersions]

\* bool(x) of an Optional[str]: None and "" are false
Truthy(val) == val # Null /\ val[1] # <<>>

\* models.py: AppStatus
AppStatus == {"ok", "update", "checking", "error", "unknown", "ignored"}

\* faulty variant: the error is looked at before the ignored flag
status_error_first(app) ==
    IF Truthy(app.last_error) THEN "error"
    ELSE IF app.ignored THEN "ignored"
    ELSE IF app.latest_version = Null THEN "unknown"
    ELSE IF app.installed_version = Null THEN "unknown"
    ELSE IF app.latest_version # app.installed_version THEN "update"
    ELSE "ok"

\* App.status, lines 51-63
status(app) ==
    IF app.ignored THEN "ignored"
    ELSE IF Truthy(app.last_error) THEN "error"
    ELSE IF app.latest_version = Null THEN "unknown"
    ELSE IF app.installed_version = Null THEN "unknown"
    ELSE IF app.latest_version # app.installed_version THEN "update"
    ELSE "ok"

RECURSIVE lstrip(_)
lstrip(str) == IF str # <<>> /\ Head(str) = " " THEN lstrip(Tail(str)) ELSE str

RECURSIVE rstrip(_)
rstrip(str) ==
    IF str # <<>> /\ str[Len(str)] = " " THEN rstrip(SubSeq(str, 1, Len(str) - 1)) ELSE str

\* str.strip()
strip(str) == rstrip(lstrip(str))

\* str.find(ch), counted from 0; -1 when ch is not in str
find(str, ch) ==
    IF \E i \in 1..Len(str) : str[i] = ch
    THEN (CHOOSE i \in 1..Len(str) : str[i] = ch /\ \A j \in 1..(i - 1) : str[j] # ch) - 1
    ELSE -1

\* str[:idx]
upto(str, idx) == SubSeq(str, 1, idx)

RECURSIVE split(_)
\* str.split(".")
split(str) ==
    LET idx == find(str, ".") IN
    IF idx = -1 THEN <<str>>
    ELSE <<upto(str, idx)>> \o split(SubSeq(str, idx + 2, Len(str)))

Digits == <<"0", "1", "2", "3", "4", "5", "6", "7", "8", "9">>

IsDigit(ch) == \E k \in 1..Len(Digits) : Digits[k] = ch

DigitValue(ch) == (CHOOSE k \in 1..Len(Digits) : Digits[k] = ch) - 1

RECURSIVE Decimal(_)
Decimal(str) ==
    IF str = <<>> THEN 0
    ELSE 10 * Decimal(SubSeq(str, 1, Len(str) - 1)) + DigitValue(str[Len(str)])

ValueError == [ok |-> FALSE, value |-> 0]

\* int(part): blanks around the number and one sign before it are accepted
int(part) ==
    LET body == strip(part)
        signed == body # <<>> /\ Head(body) \in {"+", "-"}
        digits == IF signed THEN Tail(body) ELSE body
    IN  IF digits = <<>> \/ \E i \in 1..Len(digits) : ~IsDigit(digits[i])
        THEN ValueError
        ELSE [ok |-> TRUE,
              value |-> IF signed /\ Head(body) = "-" THEN 0 - Decimal(digits)
                        ELSE Decimal(digits)]

RECURSIVE leading_ints(_)
\* parse_version, lines 303-307: the loop over the parts, left at the first
\* part that is no integer
leading_ints(parts) ==
    IF parts = <<>> \/ ~int(Head(parts)).ok THEN <<>>
    ELSE <<int(Head(parts)).value>> \o leading_ints(Tail(parts))

\* parse_version, lines 273-309
parse_version(version) ==
    IF version = <<>> THEN <<0>>
    ELSE LET stripped == strip(version)
             no_v == IF stripped # <<>> /\ Head(stripped) \in {"v", "V"}
                     THEN Tail(stripped) ELSE stripped
             no_dash == IF find(no_v, "-") > 0 THEN upto(no_v, find(no_v, "-")) ELSE no_v
             no_plus == IF find(no_dash, "+") > 0
                        THEN upto(no_dash, find(no_dash, "+")) ELSE no_dash
             parts == leading_ints(split(no_plus))
         IN IF parts = <<>> THEN <<0>> ELSE parts

RECURSIVE tuple_lt(_, _)
\* p < q on tuples of integers: the first position where they differ
\* decides, and without one the shorter tuple is the smaller
tuple_lt(p, q) ==
    IF q = <<>> THEN FALSE
    ELSE IF p = <<>> THEN TRUE
    ELSE IF Head(p) # Head(q) THEN Head(p) < Head(q)
    ELSE tuple_lt(Tail(p), Tail(q))

\* faulty variant: the integers are compared position by position up to the
\* shorter tuple only
compare_versions_common_prefix(v1, v2) ==
    LET p1 == parse_version(v1)
        p2 == parse_version(v2)
        n == IF Len(p1) < Len(p2) THEN Len(p1) ELSE Len(p2)
    IN  IF tuple_lt(SubSeq(p1, 1, n), SubSeq(p2, 1, n)) THEN -1
        ELSE IF tuple_lt(SubSeq(p2, 1, n), SubSeq(p1, 1, n)) THEN 1
        ELSE 0

\* compare_versions, lines 312-329
compare_versions(v1, v2) ==
    LET p1 == parse_version(v1)
        p2 == parse_version(v2)
    IN  IF tuple_lt(p1, p2) THEN -1
        ELSE IF tuple_lt(p2, p1) THEN 1
        ELSE 0

\* is_update_available, lines 352-367
is_update_available(app) ==
    IF app.ignored THEN FALSE
    ELSE IF ~Truthy(app.installed_version) \/ ~Truthy(app.latest_version) THEN FALSE
    ELSE compare_versions(app.installed_version[1], app.latest_version[1]) < 0

NoSubject == [ignored |-> FALSE, last_error |-> Null, installed_version |-> Null,
              latest_version |-> Null]

NotDerived == [read |-> {}, status |-> "", update |-> FALSE, compare |-> 0]

InitDerive ==
    /\ subject \in Subjects
    /\ derived = NotDerived

\* a caller reads app.status
read_status ==
    /\ "status" \notin derived.read
    /\ derived' = [derived EXCEPT !.read = @ \cup {"status"}, !.status = status(subject)]
    /\ UNCHANGED <<subject, storeVars, serviceVars, stored, batchVars, importVars, frontVars>>

\* a caller calls is_update_available(app)
call_is_update_available ==
    /\ "is_update_available" \notin derived.read
    /\ derived' = [derived EXCEPT !.read = @ \cup {"is_update_available"},
                                  !.update = is_update_available(subject)]
    /\ UNCHANGED <<subject, storeVars, serviceVars, stored, batchVars, importVars, frontVars>>

\* a caller calls compare_versions(installed_version, latest_version) of an
\* app that has both
call_compare_versions ==
    /\ "compare" \notin derived.read
    /\ subject.installed_version # Null /\ subject.latest_version # Null
    /\ derived' = [derived EXCEPT
                      !.read = @ \cup {"compare"},
                      !.compare = compare_versions(subject.installed_version[1],
                                                   subject.latest_version[1])]
    /\ UNCHANGED <<subject, storeVars, serviceVars, stored, batchVars, importVars, frontVars>>

NextDerive ==
    \/ read_status
    \/ call_is_update_available
    \/ call_compare_versions

----------------------------------------------------------------------------
(* main.py: run_export and run_import on the store                         *)


\* an app of the store with its source's identifier
Identified(id, name, winget_id, github_repo, homebrew_formula) ==
    [Tracked(id, name, "custom", FALSE) EXCEPT
        !.winget_id = winget_id, !.github_repo = github_repo,
        !.homebrew_formula = homebrew_formula]

A1 == Identified("a1", "n1", Str("w1"), Null, Null)
A2 == Identified("a2", "n2", Null, Str("g1"), Str("h1"))

\* the stores the commands start on
ImportStores == {<<>>, <<A1>>, <<A1, A2>>}

NoFile == [exists |-> FALSE, json |-> FALSE, apps |-> <<>>, exported |-> <<>>]

\* a file that holds no JSON document
NotJson == [exists |-> TRUE, json |-> FALSE, apps |-> <<>>, exported |-> <<>>]

\* a JSON envelope {version, apps, count}; `exported` is history: the list
\* run_export loaded when it wrote the file
Envelope(l) == [exists |-> TRUE, json |-> TRUE, apps |-> dicts_of(l), exported |-> <<>>]

\* the files handed to the import command: none, one that is no JSON, an
\* envelope without apps, one new app, an app with a tracked id beside a
\* new one, two new apps with one winget_id, one new id twice, and apps
\* whose winget_id, github_repo and homebrew_formula are tracked
ImportFiles ==
    {NoFile, NotJson, Envelope(<<>>),
     Envelope(<<Identified("b1", "n3", Str("w2"), Null, Null)>>),
     Envelope(<<Identified("a1", "n4", Null, Null, Null),
                Identified("b2", "n5", Null, Str("g2"), Null)>>),
     Envelope(<<Identified("b3", "n6", Str("w3"), Null, Null),
                Identified("b4", "n7", Str("w3"), Null, Null)>>),
     Envelope(<<Identified("b5", "n8", Null, Null, Str("h2")),
                Identified("b5", "n9", Null, Null, Str("h3"))>>),
     Envelope(<<Identified("b6", "n1", Str("w1"), Null, Null),
                Identified("b7", "n2", Null, Str("g1"), Null),
                Identified("b8", "n2", Null, Null, Str("h1"))>>)}

\* what a command printed; `merge` and `from_export` are history: the flag
\* and the file the command was given
NoReport == [command |-> "", exit |-> 0, message |-> "", added |-> 0, skipped |-> 0,
             entries |-> 0, merge |-> FALSE, from_export |-> FALSE]

InitImport ==
    /\ import_file \in ImportFiles
    /\ export_file = NoFile
    /\ import_pre = <<>>
    /\ report = NoReport

\* run_export, lines 510-529, with a file argument
run_export ==
    /\ export_file' = [exists |-> TRUE, json |-> TRUE,
                       apps |-> dicts_of(apps_of(stored)), exported |-> apps_of(stored)]
    /\ import_pre' = stored
    /\ report' = [NoReport EXCEPT !.command = "export", !.message = "Exported",
                                  !.entries = Len(stored)]
    /\ UNCHANGED <<stored, import_file>>
    /\ UNCHANGED <<storeVars, serviceVars, batchVars, deriveVars, frontVars>>

\* run_import, lines 551-554: the identifiers of the loaded store
existing_ids(existing) == {existing[i].id : i \in 1..Len(existing)}
existing_winget(existing) ==
    {existing[i].winget_id : i \in {j \in 1..Len(existing) : Present(existing[j].winget_id)}}
existing_github(existing) ==
    {existing[i].github_repo : i \in {j \in 1..Len(existing) : Present(existing[j].github_repo)}}
existing_homebrew(existing) ==
    {existing[i].homebrew_formula :
        i \in {j \in 1..Len(existing) : Present(existing[j].homebrew_formula)}}

\* run_import, lines 560-576: the entry is skipped
collides(app_data, existing) ==
    \/ (IF IsStr(app_data.id) THEN app_data.id[1] ELSE "") \in existing_ids(existing)
    \/ Present(app_data.winget_id) /\ app_data.winget_id \in existing_winget(existing)
    \/ Present(app_data.github_repo) /\ app_data.github_repo \in existing_github(existing)
    \/ Present(app_data.homebrew_formula)
         /\ app_data.homebrew_formula \in existing_homebrew(existing)

\* add_app, lines 174-189, on the store's document: load, look for the id,
\* append and save
add_app_to(ds, app) ==
    IF add_app_exists(apps_of(ds), app) THEN ds
    ELSE dicts_of(Append(apps_of(ds), app))

RECURSIVE merge_loop(_, _, _, _)
\* run_import, lines 556-580: the loop over the imported entries; `existing`
\* is the list loaded before the loop
merge_loop(acc, imported_apps, k, existing) ==
    IF k > Len(imported_apps) THEN acc
    ELSE IF collides(imported_apps[k], existing)
         THEN merge_loop([acc EXCEPT !.skipped = @ + 1], imported_apps, k + 1, existing)
         ELSE merge_loop([acc EXCEPT
                             !.store = add_app_to(@, App_from_dict(imported_apps[k],
                                                                   uuid4(k))),
                             !.added = @ + 1],
                         imported_apps, k + 1, existing)

\* faulty variant: the imported apps are put behind the stored ones
replaced_store_appending(ds, imported_apps) == ds \o dicts_of(apps_of(imported_apps))

\* run_import, lines 585-586: the list save_apps is handed without --merge
replaced_store(ds, imported_apps) == dicts_of(apps_of(imported_apps))

\* run_import, lines 532-588, on the file the user has or on the file the
\* export command wrote
run_import(from_export, merge) ==
    LET file == IF from_export THEN export_file ELSE import_file
        imported_apps == file.apps
        ImportReport == [NoReport EXCEPT !.command = "import", !.merge = merge,
                                         !.from_export = from_export]
    IN
    /\ from_export => export_file.exists
    /\ import_pre' = stored
    /\ IF ~file.exists
       THEN /\ report' = [ImportReport EXCEPT !.exit = 1,
                                              !.message = "Error: File not found"]
            /\ UNCHANGED stored
       ELSE IF ~file.json
       THEN /\ report' = [ImportReport EXCEPT !.exit = 1,
                                              !.message = "Error: Invalid JSON"]
            /\ UNCHANGED stored
       ELSE IF imported_apps = <<>>
       THEN /\ report' = [ImportReport EXCEPT !.message = "No apps found in import file."]
            /\ UNCHANGED stored
       ELSE IF merge
       THEN LET done == merge_loop([store |-> stored, added |-> 0, skipped |-> 0],
                                   imported_apps, 1, apps_of(stored))
            IN /\ stored' = done.store
               /\ report' = [ImportReport EXCEPT !.message = "merged",
                                                 !.added = done.added,
                                             !.skipped = done.skipped,
                                                 !.entries = Len(imported_apps)]
       ELSE /\ stored' = replaced_store(stored, imported_apps)
            /\ report' = [ImportReport EXCEPT !.message = "replaced",
                                              !.entries = Len(imported_apps)]
    /\ UNCHANGED <<import_file, export_file>>
    /\ UNCHANGED <<storeVars, serviceVars, batchVars, deriveVars, frontVars>>

NextImport ==
    \/ run_export
    \/ \E from_export, merge \in BOOLEAN : run_import(from_export, merge)

----------------------------------------------------------------------------
(* tui/app.py and tui/screens.py: the dashboard.  UpdateCheckerApp holds   *)
(* the stack of screens and its own checkers; MainScreen holds the         *)
(* in-memory list and the refresh guard.  The coroutine check_one(app, i)  *)
(* of a refresh is check_one[i].  A handler runs to its end before the     *)
(* next one starts; coroutines interleave at their awaits.                 *)

nonDashVars == <<storeVars, serviceVars, batchVars, deriveVars, importVars, summary,
                 scanVars, cacheVars>>

\* UpdateCheckerApp.SCREENS, app.py lines 153-156
SCREENS == {"main", "add-app"}

\* the stores the dashboard starts on
DashLists ==
    {<<Tracked("a1", "n1", "github", FALSE), Tracked("a2", "n2", "homebrew", FALSE)>>,
     <<Tracked("a1", "n1", "github", FALSE), Tracked("a2", "n2", "github", FALSE),
       Tracked("a3", "n3", "github", TRUE)>>}

\* what a checker's check does when awaited: it returns an info or raises
Responses ==
    {[info |-> i, raised |-> NoException] : i \in CheckerInfos}
        \cup {[info |-> NoInfo, raised |-> e] : e \in BatchExceptions}

\* UpdateCheckerApp.check_app, app.py lines 171-190: the shell awaits its
\* own checker of the app's source, and has none for homebrew
shell_check_app(source, response) ==
    IF source \in {"winget", "github", "custom"} THEN response
    ELSE [info |-> UpdateInfo(Null, Null, <<"Unknown source type: ", source>>),
          raised |-> NoException]

\* UpdateService.check_app, service.py lines 61-78, on the same response
service_check_app(source, response) ==
    IF source \notin _checkers
    THEN [info |-> no_checker_info(source), raised |-> NoException]
    ELSE IF response.raised # NoException /\ caught(response.raised)
    THEN [info |-> error_info(response.raised), raised |-> NoException]
    ELSE response

IdleCheck == [pc |-> "idle", id |-> "", source |-> "", response |-> <<>>, info |-> NoInfo,
              wrote |-> ""]

InitDash ==
    /\ screen_stack = <<"main">>
    /\ dash_exc = ""
    /\ dash_event = "on_mount"
    /\ screen_apps = apps_of(stored)
    /\ is_checking = FALSE
    /\ running = 0
    /\ refresh_pc = "idle"
    /\ check_one = [i \in 1..MaxApps |-> IdleCheck]
    /\ added_during = {}
    /\ keys = 0

\* the screen that takes the keys
top == screen_stack[Len(screen_stack)]

\* App.push_screen(name): a name that SCREENS does not install raises
\* KeyError, which ends the handler
push_screen(name) ==
    IF name \in SCREENS
    THEN screen_stack' = Append(screen_stack, name) /\ UNCHANGED dash_exc
    ELSE dash_exc' = "KeyError" /\ UNCHANGED screen_stack

\* MainScreen.action_add_app, screens.py lines 149-151: key 'a'
action_add_app ==
    /\ dash_exc = "" /\ top = "main"
    /\ dash_event' = "action_add_app"
    /\ keys < MaxKeys /\ keys' = keys + 1
    /\ push_screen("add-app")
    /\ UNCHANGED <<screen_apps, is_checking, running, refresh_pc, check_one, added_during>>
    /\ UNCHANGED <<stored, nonDashVars>>

\* MainScreen.action_scan_apps, screens.py lines 153-155: key 's'
action_scan_apps ==
    /\ dash_exc = "" /\ top = "main"
    /\ dash_event' = "action_scan_apps"
    /\ keys < MaxKeys /\ keys' = keys + 1
    /\ push_screen("scan")
    /\ UNCHANGED <<screen_apps, is_checking, running, refresh_pc, check_one, added_during>>
    /\ UNCHANGED <<stored, nonDashVars>>

\* AddAppScreen.action_cancel, screens.py lines 440-441: pop_screen, then
\* MainScreen.on_screen_resume, lines 201-204, reloads the list
action_cancel ==
    /\ dash_exc = "" /\ top = "add-app"
    /\ dash_event' = "action_cancel"
    /\ keys < MaxKeys /\ keys' = keys + 1
    /\ screen_stack' = SubSeq(screen_stack, 1, Len(screen_stack) - 1)
    /\ screen_apps' = apps_of(stored)
    /\ UNCHANGED <<dash_exc, is_checking, running, refresh_pc, check_one, added_during>>
    /\ UNCHANGED <<stored, nonDashVars>>

\* the refresh coroutine is scheduled or running
refresh_running == refresh_pc \in {"scheduled", "gather"}

\* AddAppScreen._add_app, screens.py lines 399-438: the app of the form is
\* made by App.from_dict, which gives it a new id, and stored by add_app;
\* pop_screen, then on_screen_resume reloads the list
_add_app ==
    /\ dash_exc = "" /\ top = "add-app"
    /\ Len(stored) < MaxApps
    /\ LET app == Tracked(uuid4(Len(stored) + 1), "n9", "github", FALSE) IN
          /\ stored' = add_app_to(stored, app)
          /\ added_during' = IF refresh_running THEN added_during \cup {app.id}
                             ELSE added_during
    /\ dash_event' = "_add_app"
    /\ keys < MaxKeys /\ keys' = keys + 1
    /\ screen_stack' = SubSeq(screen_stack, 1, Len(screen_stack) - 1)
    /\ screen_apps' = apps_of(stored')
    /\ UNCHANGED <<dash_exc, is_checking, running, refresh_pc, check_one>>
    /\ UNCHANGED nonDashVars

\* faulty variant: the guard is not looked at
refresh_guard_off(flag) == FALSE

\* action_refresh, screens.py line 112: `if self.is_checking`
refresh_guard(flag) == flag

\* MainScreen.action_refresh, screens.py lines 110-116: key 'r'
action_refresh ==
    /\ dash_exc = "" /\ top = "main"
    /\ dash_event' = "action_refresh"
    /\ keys < MaxKeys /\ keys' = keys + 1
    /\ IF refresh_guard(is_checking)
       THEN UNCHANGED <<is_checking, running, refresh_pc, added_during>>
       ELSE /\ is_checking' = TRUE
            /\ running' = running + 1
            /\ refresh_pc' = "scheduled"
            /\ added_during' = {}
    /\ UNCHANGED <<screen_stack, dash_exc, screen_apps, check_one>>
    /\ UNCHANGED <<stored, nonDashVars>>

\* _check_all_apps, screens.py lines 118-143: the scheduled coroutine makes
\* one check_one(app, i) per app of the list that is not ignored and awaits
\* their gather; its Semaphore(5) has more slots than the list has apps
_check_all_apps ==
    /\ dash_exc = ""
    /\ refresh_pc = "scheduled"
    /\ check_one' = [i \in 1..MaxApps |->
                        IF i <= Len(screen_apps) /\ ~screen_apps[i].ignored
                        THEN [IdleCheck EXCEPT !.pc = "ready", !.id = screen_apps[i].id,
                                               !.source = screen_apps[i].source]
                        ELSE IdleCheck]
    /\ refresh_pc' = "gather"
    /\ dash_event' = "_check_all_apps"
    /\ UNCHANGED keys
    /\ UNCHANGED <<screen_stack, dash_exc, screen_apps, is_checking, running, added_during>>
    /\ UNCHANGED <<stored, nonDashVars>>

\* datetime.now().isoformat() in the dashboard
stamp == Str("now")

\* check_one, screens.py lines 126-128: the tasks of the gather start one
\* after the other; each stamps self.apps[index].last_checked, which raises
\* IndexError past the end of the list, and awaits the shell's check_app
check_one_starts ==
    /\ dash_exc = ""
    /\ \E i \in 1..MaxApps : check_one[i].pc = "ready"
    /\ check_one' = [i \in 1..MaxApps |->
                        IF check_one[i].pc # "ready" THEN check_one[i]
                        ELSE IF i <= Len(screen_apps)
                        THEN [check_one[i] EXCEPT !.pc = "checking"]
                        ELSE [check_one[i] EXCEPT !.pc = "raised"]]
    /\ screen_apps' = [i \in 1..Len(screen_apps) |->
                          IF check_one[i].pc = "ready"
                          THEN [screen_apps[i] EXCEPT !.last_checked = stamp]
                          ELSE screen_apps[i]]
    /\ dash_event' = "check_one"
    /\ UNCHANGED keys
    /\ UNCHANGED <<screen_stack, dash_exc, is_checking, running, refresh_pc, added_during>>
    /\ UNCHANGED <<stored, nonDashVars>>

\* check_one, screens.py lines 128-134: the shell's check_app answers; an
\* exception leaves check_one, an info is written to self.apps[index]
check_one_returns(i, response) ==
    /\ dash_exc = ""
    /\ check_one[i].pc = "checking"
    /\ LET outcome == shell_check_app(check_one[i].source, response) IN
          IF outcome.raised # NoException
          THEN /\ check_one' = [check_one EXCEPT ![i].pc = "raised", ![i].response = response]
               /\ UNCHANGED screen_apps
          ELSE IF i > Len(screen_apps)
          THEN /\ check_one' = [check_one EXCEPT ![i].pc = "raised", ![i].response = response,
                                                 ![i].info = outcome.info,
                                                 ![i].wrote = "IndexError"]
               /\ UNCHANGED screen_apps
          ELSE /\ check_one' = [check_one EXCEPT ![i].pc = "done", ![i].response = response,
                                                 ![i].info = outcome.info,
                                                 ![i].wrote = screen_apps[i].id]
               /\ screen_apps' = [screen_apps EXCEPT
                                     ![i].latest_version = outcome.info.latest_version,
                                     ![i].release_url = outcome.info.release_url,
                                     ![i].last_error = outcome.info.error]
    /\ dash_event' = "check_one"
    /\ UNCHANGED keys
    /\ UNCHANGED <<screen_stack, dash_exc, is_checking, running, refresh_pc, added_during>>
    /\ UNCHANGED <<stored, nonDashVars>>

\* _check_all_apps, screens.py lines 143-147: every check_one returned, the
\* list is saved and the guard cleared; an OSError of save_apps leaves the
\* coroutine before the guard is cleared
_check_all_apps_returns(outcome) ==
    /\ dash_exc = ""
    /\ refresh_pc = "gather"
    /\ \A i \in 1..MaxApps : check_one[i].pc \in {"idle", "done"}
    /\ IF outcome = "saved"
       THEN /\ stored' = dicts_of(screen_apps)
            /\ is_checking' = FALSE
            /\ refresh_pc' = "done"
       ELSE /\ refresh_pc' = "raised"
            /\ UNCHANGED <<stored, is_checking>>
    /\ running' = running - 1
    /\ dash_event' = "_check_all_apps"
    /\ UNCHANGED keys
    /\ UNCHANGED <<screen_stack, dash_exc, screen_apps, check_one, added_during>>
    /\ UNCHANGED nonDashVars

\* _check_all_apps, screens.py line 143: the gather raises what a check_one
\* raised, and the coroutine ends there
_check_all_apps_raises ==
    /\ dash_exc = ""
    /\ refresh_pc = "gather"
    /\ \E i \in 1..MaxApps : check_one[i].pc = "raised"
    /\ refresh_pc' = "raised"
    /\ running' = running - 1
    /\ dash_event' = "_check_all_apps"
    /\ UNCHANGED keys
    /\ UNCHANGED <<screen_stack, dash_exc, screen_apps, is_checking, check_one, added_during>>
    /\ UNCHANGED <<stored, nonDashVars>>

\* MainScreen.on_delete_app, screens.py lines 178-188, for the app at
\* position i of the table
on_delete_app(i) ==
    /\ dash_exc = "" /\ top = "main"
    /\ i \in 1..Len(screen_apps)
    /\ screen_apps' = Filter(screen_apps, screen_apps[i].id)
    /\ stored' = dicts_of(screen_apps')
    /\ dash_event' = "on_delete_app"
    /\ keys < MaxKeys /\ keys' = keys + 1
    /\ UNCHANGED <<screen_stack, dash_exc, is_checking, running, refresh_pc, check_one,
                   added_during>>
    /\ UNCHANGED nonDashVars

\* MainScreen.on_toggle_ignore, screens.py lines 163-176, for the app at
\* position i of the table: the object is changed where it is, and put at
\* the first position that has its id
on_toggle_ignore(i) ==
    /\ dash_exc = "" /\ top = "main"
    /\ i \in 1..Len(screen_apps)
    /\ LET app == [screen_apps[i] EXCEPT !.ignored = ~@]
           changed == [screen_apps EXCEPT ![i] = app]
       IN screen_apps' = [changed EXCEPT ![FirstIndex(changed, app.id)] = app]
    /\ stored' = dicts_of(screen_apps')
    /\ dash_event' = "on_toggle_ignore"
    /\ keys < MaxKeys /\ keys' = keys + 1
    /\ UNCHANGED <<screen_stack, dash_exc, is_checking, running, refresh_pc, check_one,
                   added_during>>
    /\ UNCHANGED nonDashVars

\* the steps of the refresh coroutine and of its checks
NextRefresh ==
    \/ _check_all_apps
    \/ check_one_starts
    \/ \E i \in 1..MaxApps, response \in Responses : check_one_returns(i, response)
    \/ \E outcome \in SaveOutcomes : _check_all_apps_returns(outcome)
    \/ _check_all_apps_raises

NextDash ==
    \/ action_add_app
    \/ action_scan_apps
    \/ action_cancel
    \/ _add_app
    \/ action_refresh
    \/ \E i \in 1..MaxApps : on_delete_app(i)
    \/ \E i \in 1..MaxApps : on_toggle_ignore(i)
    \/ NextRefresh

----------------------------------------------------------------------------
(* main.py: run_scan, and tui/screens.py: ScanScreen._add_selected.  An    *)
(* entry of the scan output is a dict with plain strings.                  *)

\* an entry of WingetChecker._parse_winget_list_output, winget.py lines 193-198
Scanned(name, winget_id, source) == [name |-> name, winget_id |-> winget_id, source |-> source]

\* what scan_installed_apps returns: nothing; a tracked and a new package; a
\* package listed twice; a package listed under winget and under another
\* source; a package of another source only
ScanOutputs ==
    {<<>>,
     <<Scanned("n1", "w1", "winget"), Scanned("n3", "w2", "winget")>>,
     <<Scanned("n4", "w3", "winget"), Scanned("n4", "w3", "winget")>>,
     <<Scanned("n5", "w4", "winget"), Scanned("n5", "w4", "msstore")>>,
     <<Scanned("n6", "w5", "msstore")>>}

NoScanCall == [command |-> "", all |-> FALSE]

InitScan ==
    /\ scan_call = NoScanCall
    /\ scanned_apps = <<>>
    /\ scan_pre = <<>>

\* run_scan, lines 149-154, and _add_selected, lines 613-618: the App made of
\* a scan entry; __post_init__ gives it a new id
scanned_app(app_data, n) ==
    [Tracked(uuid4(n), app_data.name, "winget", FALSE) EXCEPT
        !.winget_id = Str(app_data.winget_id)]

\* run_scan, line 147: `winget_id not in scan_ids`
is_new(winget_id, scan_ids) == Str(winget_id) \notin scan_ids

RECURSIVE scan_loop(_, _, _, _)
\* run_scan, lines 145-160 and 167-177, and _add_selected, lines 603-620: the
\* loop over scan entries; `scan_ids` (existing_ids) is the set made before the loop,
\* and with `need_id` an entry without an identifier is passed over
scan_loop(ds, entries, scan_ids, need_id) ==
    IF entries = <<>> THEN ds
    ELSE LET app_data == Head(entries)
             adds == /\ is_new(app_data.winget_id, scan_ids)
                     /\ need_id => app_data.winget_id # ""
         IN scan_loop(IF adds THEN add_app_to(ds, scanned_app(app_data, Len(ds) + 1)) ELSE ds,
                      Tail(entries), scan_ids, need_id)

\* the entries of one partition of the scan output, in its order
partition(entries, winget) ==
    SelectSeq(entries, LAMBDA a : (a.source = "winget") = winget)

\* run_scan, line 134, and _add_selected, line 599: the winget ids tracked
\* when the import starts
tracked_ids(ds) ==
    {apps_of(ds)[i].winget_id : i \in {j \in 1..Len(ds) : Present(apps_of(ds)[j].winget_id)}}

\* main.py, run_scan, lines 127-188, without --interactive: the winget
\* entries are added, then with --all the others that have an identifier
run_scan(all) ==
    /\ Len(stored) < MaxApps
    /\ \E output \in ScanOutputs :
          /\ scanned_apps' = output
          /\ stored' =
                IF output = <<>> THEN stored
                ELSE LET scan_ids == tracked_ids(stored)
                         first == scan_loop(stored, partition(output, TRUE), scan_ids, FALSE)
                     IN IF all
                        THEN scan_loop(first, partition(output, FALSE), scan_ids, TRUE)
                        ELSE first
    /\ scan_call' = [command |-> "scan", all |-> all]
    /\ scan_pre' = stored
    /\ UNCHANGED <<storeVars, serviceVars, batchVars, deriveVars, importVars>>
    /\ UNCHANGED <<summary, dashVars, cacheVars>>

\* ScanScreen._add_selected, screens.py lines 594-630, on the list its scan
\* had found
_add_selected ==
    /\ Len(stored) < MaxApps
    /\ \E output \in ScanOutputs :
          /\ scanned_apps' = output
          /\ stored' = scan_loop(stored, partition(output, TRUE), tracked_ids(stored), FALSE)
    /\ scan_call' = [command |-> "_add_selected", all |-> FALSE]
    /\ scan_pre' = stored
    /\ UNCHANGED <<storeVars, serviceVars, batchVars, deriveVars, importVars>>
    /\ UNCHANGED <<summary, dashVars, cacheVars>>

NextScan ==
    \/ \E all \in BOOLEAN : run_scan(all)
    \/ _add_selected

----------------------------------------------------------------------------
(* service.py: _get_checker and the cache of checker instances.  The k-th  *)
(* instance made of a source's class is k; 0 stands for None.              *)

\* the methods of UpdateService that resolve a checker, and the source each
\* resolves; check_app and check_all_apps resolve the source of the app
Methods ==
    {"check_app", "check_all_apps", "scan_installed_apps", "detect_version_patterns",
     "validate_github_repo", "search_winget"}

sources_of(method) ==
    CASE method \in {"check_app", "check_all_apps"} -> AppSource
      [] method \in {"scan_installed_apps", "search_winget"} -> {"winget"}
      [] method = "detect_version_patterns" -> {"custom"}
      [] method = "validate_github_repo" -> {"github"}

InitCache ==
    /\ _instances = [source \in AppSource |-> 0]
    /\ created = [source \in AppSource |-> 0]
    /\ resolved = [method \in Methods |-> {}]

\* CheckerRegistry.create_checker, checkers/__init__.py lines 50-64: a new
\* instance of the registered class, or None
create_checker(source) ==
    IF source \in _checkers THEN created[source] + 1 ELSE 0

\* faulty variant: the instance is not kept
kept_nothing(cache, source, checker) == cache

\* _get_checker, lines 48-49: `if checker: self._checker_cache[source] = checker`
kept(cache, source, checker) ==
    IF checker # 0 THEN [cache EXCEPT ![source] = checker] ELSE cache

\* UpdateService._get_checker, service.py lines 35-50, at the start of
\* `method`, before its first await
_get_checker(method, source) ==
    /\ source \in sources_of(method)
    /\ IF _instances[source] = 0
       THEN /\ _instances' = kept(_instances, source, create_checker(source))
            /\ created' = [created EXCEPT ![source] = create_checker(source)]
       ELSE UNCHANGED <<_instances, created>>
    /\ resolved' = [resolved EXCEPT ![method] = @ \cup {<<source, _instances'[source]>>}]
    /\ UNCHANGED <<storeVars, serviceVars, stored, batchVars, deriveVars, importVars>>
    /\ UNCHANGED <<summary, dashVars, scanVars>>

NextCache == \E method \in Methods, source \in AppSource : _get_checker(method, source)

----------------------------------------------------------------------------
(* The specifications *)

\* the service as constructed by get_service(), with nothing running
ServiceAtRest ==
    /\ _checkers = AppSource
    /\ max_concurrent = MAX_CONCURRENT_CHECKS
    /\ _semaphore = semaphore_slots(max_concurrent)
    /\ _checker_cache = {}
    /\ task = [t \in Tasks |-> IdleTask]

\* no derived value asked for
DeriveAtRest == subject = NoSubject /\ derived = NotDerived

\* no import or export command run
ImportAtRest ==
    /\ import_file = NoFile
    /\ export_file = NoFile
    /\ import_pre = <<>>
    /\ report = NoReport

\* no dashboard started
DashAtRest ==
    /\ screen_stack = <<>>
    /\ dash_exc = ""
    /\ dash_event = ""
    /\ screen_apps = <<>>
    /\ is_checking = FALSE
    /\ running = 0
    /\ refresh_pc = "idle"
    /\ check_one = [i \in 1..MaxApps |-> IdleCheck]
    /\ added_during = {}
    /\ keys = 0

\* no check summary printed, no dashboard, no scan import, nothing resolved
FrontAtRest == summary = NoSummary /\ DashAtRest /\ InitScan /\ InitCache

InitStoreSpec ==
    /\ InitStore /\ ServiceAtRest /\ stored = <<>> /\ InitBatch /\ DeriveAtRest /\ ImportAtRest
    /\ FrontAtRest

InitServiceSpec ==
    /\ InitStore /\ InitService /\ stored = <<>> /\ InitBatch /\ DeriveAtRest /\ ImportAtRest
    /\ FrontAtRest

\* a service with fewer slots than apps or as many as it has by default,
\* and a registry the homebrew class was not registered in
InitBatchSpec ==
    /\ InitStore
    /\ _checkers = AppSource \ {"homebrew"}
    /\ max_concurrent \in {2, MAX_CONCURRENT_CHECKS}
    /\ _semaphore = semaphore_slots(max_concurrent)
    /\ _checker_cache = {}
    /\ task = [t \in Tasks |-> IdleTask]
    /\ stored \in {dicts_of(l) : l \in BatchLists}
    /\ InitBatch
    /\ DeriveAtRest
    /\ ImportAtRest
    /\ FrontAtRest

InitDeriveSpec ==
    /\ InitStore /\ ServiceAtRest /\ stored = <<>> /\ InitBatch /\ InitDerive /\ ImportAtRest
    /\ FrontAtRest

InitImportSpec ==
    /\ InitStore
    /\ ServiceAtRest
    /\ stored \in {dicts_of(l) : l \in ImportStores}
    /\ InitBatch
    /\ DeriveAtRest
    /\ InitImport
    /\ FrontAtRest

SpecStore == InitStoreSpec /\ [][NextStore]_vars

SpecService == InitServiceSpec /\ [][NextService]_vars

SpecBatch == InitBatchSpec /\ [][NextBatch]_vars

SpecCheck == InitBatchSpec /\ [][NextCheck]_vars

\* While a coroutine of the batch can run the event loop runs one, and
\* every call a checker makes answers or reaches its timeout: some step of
\* the batch is taken as long as one can be.
FairBatch == WF_vars(NextBatch)

\* the batches that check more apps than the service has slots
InitBatchLive ==
    InitBatchSpec /\ Cardinality(tasks_of(apps_of(stored))) > max_concurrent

SpecBatchLive == InitBatchLive /\ [][NextBatch]_vars /\ FairBatch

SpecDerive == InitDeriveSpec /\ [][NextDerive]_vars

\* the dashboard mounted on a store, with the service's registry
InitDashSpec ==
    /\ InitStore
    /\ ServiceAtRest
    /\ stored \in {dicts_of(l) : l \in DashLists}
    /\ InitBatch
    /\ DeriveAtRest
    /\ ImportAtRest
    /\ summary = NoSummary
    /\ InitDash
    /\ InitScan
    /\ InitCache

InitScanSpec ==
    /\ InitStore
    /\ ServiceAtRest
    /\ stored \in {dicts_of(l) : l \in ImportStores}
    /\ InitBatch
    /\ DeriveAtRest
    /\ ImportAtRest
    /\ FrontAtRest

InitCacheSpec ==
    /\ InitStore
    /\ InitService
    /\ stored = <<>>
    /\ InitBatch
    /\ DeriveAtRest
    /\ ImportAtRest
    /\ FrontAtRest

SpecDash == InitDashSpec /\ [][NextDash]_vars

\* the event loop runs a coroutine that can run; no key is ever due
FairRefresh == WF_vars(NextRefresh)

SpecDashLive == InitDashSpec /\ [][NextDash]_vars /\ FairRefresh

SpecScan == InitScanSpec /\ [][NextScan]_vars

SpecCache == InitCacheSpec /\ [][NextCache]_vars


SpecImport == InitImportSpec /\ [][NextImport]_vars

----------------------------------------------------------------------------
(* Properties of the service *)

InFlight == {t \in Tasks : task[t].pc = "checking"}

\* C9: check_app never raises: a finished call has returned an UpdateInfo;
\* without a registered checker the info carries 'No checker available for
\* source: {source}'; after an exception of the checker it carries the
\* exception's message and no latest_version; and it holds no slot.
C9_CheckAppNeverRaises ==
    \A t \in Tasks :
        /\ task[t].pc # "raised"
        /\ task[t].pc = "done" =>
            /\ ~task[t].holds
            /\ task[t].source \notin _checkers =>
                 task[t].info = UpdateInfo(Null, Null,
                                    <<"No checker available for source: ", task[t].source>>)
            /\ task[t].raised # NoException =>
                 /\ task[t].info.error = Str(task[t].raised.msg)
                 /\ task[t].info.latest_version = Null
            /\ (task[t].source \in _checkers /\ task[t].raised = NoException) =>
                 task[t].info \in CheckerInfos
        /\ _semaphore + Cardinality({u \in Tasks : task[u].holds}) = max_concurrent

\* C9 witness: one call ended by a checker's exception while another ended
\* for want of a checker
C9_Witness ==
    \E t, u \in Tasks :
        /\ task[t].pc = "done" /\ task[t].raised # NoException
        /\ task[u].pc = "done" /\ task[u].source \notin _checkers

\* C10: at most max_concurrent checks are in flight
C10_BoundedInFlight ==
    /\ Cardinality(InFlight) <= max_concurrent
    /\ _semaphore >= 0

\* C10 witness: every slot taken while another coroutine waits for one
C10_Witness ==
    /\ Cardinality(InFlight) = max_concurrent
    /\ max_concurrent = 2
    /\ \E t \in Tasks : task[t].pc = "waiting"

----------------------------------------------------------------------------
(* Properties of the batch check *)

\* the positions of the apps the call was handed that are not ignored
Checked == {i \in 1..Len(batch_pre) : ~batch_pre[i].ignored}

Returned == batch_pc \in {"done", "raised"}

\* the infos check_app makes itself
OwnInfos ==
    {no_checker_info(source) : source \in AppSource}
        \cup {error_info(e) : e \in BatchExceptions}

\* C11: check_all_apps returns exactly one (app, result) pair for each
\* non-ignored app of the list and none for an ignored app, so the result
\* has as many pairs as there are non-ignored apps, whichever checks fail or
\* time out; and no checker is invoked for an ignored app.
C11_OnePairPerCheckedApp ==
    /\ \A t \in Tasks : (t \notin Checked) => task[t] = IdleTask
    /\ \A k \in 1..Len(callbacks) : callbacks[k].app \in Checked
    /\ Returned =>
        /\ Len(results) = Cardinality(Checked)
        /\ \A i \in Checked : Cardinality({k \in 1..Len(results) : results[k].app = i}) = 1
        /\ \A k \in 1..Len(results) :
              /\ results[k].app \in Checked
              /\ results[k].info \in CheckerInfos \cup OwnInfos

\* C11 witness: a call on a list with an ignored app returned two pairs, one
\* of a check that failed and one of a check that found a version
C11_Witness ==
    /\ batch_pc = "done"
    /\ \E i \in 1..Len(batch_pre) : batch_pre[i].ignored
    /\ Len(results) = 2
    /\ \E k, m \in 1..Len(results) :
          /\ results[k].info.error # Null
          /\ succeeded(results[m].info)

\* C12 as stated: the k-th invocation of the progress callback in a batch
\* carries index k, the 1-based completion order, whatever the position of
\* the app in the list and whatever apps of the list are ignored.
C12_AsStated ==
    \A k \in 1..Len(callbacks) : callbacks[k].index = k

DistinctIds(l) == \A i, j \in 1..Len(l) : l[i].id = l[j].id => i = j

\* the result pair of the app at position i
PairOf(i) == results[CHOOSE k \in 1..Len(results) : results[k].app = i]

\* app `new` is app `old` but for the four fields a check writes
OnlyCheckFieldsDiffer(new, old) ==
    [new EXCEPT !.latest_version = old.latest_version, !.release_url = old.release_url,
                !.last_error = old.last_error, !.last_checked = old.last_checked] = old

UpdatedFromOwnResults ==
    /\ \A i \in 1..Len(batch_apps) :
          IF i \in Checked
          THEN /\ batch_apps[i].latest_version = PairOf(i).info.latest_version
               /\ batch_apps[i].release_url = PairOf(i).info.release_url
               /\ batch_apps[i].last_error = PairOf(i).info.error
               /\ batch_apps[i].last_checked = now(passes)
               /\ OnlyCheckFieldsDiffer(batch_apps[i], batch_pre[i])
          ELSE batch_apps[i] = batch_pre[i]
    /\ Len(batch_apps) = Len(batch_pre)
    /\ apps_of(stored) = batch_apps

UpdateReturned == batch_pc = "done" /\ batch_call.op = "check_and_update"

C14_AsStated ==
    (UpdateReturned /\ DistinctIds(batch_pre)) =>
        \A i \in 1..Len(batch_apps) :
            last_good[i] # Null => batch_apps[i].latest_version = last_good[i]

\* C15: every check a batch starts finishes: a task that waits for a slot
\* gets one, a task that holds a slot gets its result and frees the slot,
\* and the batch returns, also with more apps than slots.
\* Checks wait or run only while their batch gathers them, and a gathering
\* batch leads to a returned one with no check waiting or running and every
\* slot free.
C15_EveryCheckFinishes ==
    /\ [](\A t \in Tasks : task[t].pc \in {"waiting", "checking"} => batch_pc = "gather")
    /\ (batch_pc = "gather") ~>
          /\ Returned
          /\ _semaphore = max_concurrent
          /\ \A t \in Tasks : task[t].pc \notin {"waiting", "checking"} /\ ~task[t].holds

\* C15 witness: more apps to check than slots, every slot taken and a task
\* waiting for one
C15_Witness ==
    /\ batch_pc = "gather"
    /\ Cardinality(tasks_of(batch_apps)) > max_concurrent
    /\ _semaphore = 0
    /\ \E t \in Tasks : task[t].pc = "waiting"

----------------------------------------------------------------------------
(* Properties of the derived values *)

V_1_2 == <<"1", ".", "2">>
V_1_2_0 == <<"1", ".", "2", ".", "0">>

\* the decision order of the derived status, with `has_error` saying when
\* last_error counts as present
StatusDecidedBy(has_error) ==
    LET ignored == subject.ignored
        latest == subject.latest_version
        installed == subject.installed_version
        st == derived.status
    IN  /\ st \in AppStatus \ {"checking"}
        /\ ignored => st = "ignored"
        /\ (~ignored /\ has_error) => st = "error"
        /\ (~ignored /\ ~has_error /\ latest = Null) => st = "unknown"
        /\ (~ignored /\ ~has_error /\ latest # Null /\ installed = Null) => st = "unknown"
        /\ (~ignored /\ ~has_error /\ latest # Null /\ installed # Null
              /\ latest # installed) => st = "update"
        /\ (~ignored /\ ~has_error /\ latest # Null /\ installed # Null
              /\ latest = installed) => st = "ok"

\* C16 as stated: the status is decided in this order for every combination
\* of fields: ignored gives IGNORED; else last_error present gives ERROR;
\* else latest_version absent gives UNKNOWN; else installed_version absent
\* gives UNKNOWN; else latest_version different from installed_version as
\* plain strings gives UPDATE_AVAILABLE; else OK; never CHECKING.
C16_AsStated ==
    "status" \in derived.read => StatusDecidedBy(subject.last_error # Null)

\* C16: the same order, where last_error gives ERROR when it is present and
\* not the empty string.
C16_StatusOrder ==
    "status" \in derived.read =>
        StatusDecidedBy(subject.last_error # Null /\ subject.last_error # Str(<<>>))

\* C16 witness: the status of an app that is not ignored, has the empty
\* string as last_error and two different versions
C16_Witness ==
    /\ "status" \in derived.read
    /\ ~subject.ignored
    /\ subject.last_error = Str(<<>>)
    /\ derived.status = "update"

\* tuple p is lexicographically smaller than tuple q: at the first position
\* where they differ p has the smaller integer, or p ends there and q goes on
LexSmaller(p, q) ==
    \E k \in 1..Len(q) :
        /\ k - 1 <= Len(p)
        /\ \A j \in 1..(k - 1) : p[j] = q[j]
        /\ \/ k = Len(p) + 1
           \/ k <= Len(p) /\ p[k] < q[k]

\* is_update_available as the claim gives it, with `absent` saying when a
\* version field counts as absent
UpdateDecidedBy(absent(_)) ==
    LET installed == subject.installed_version
        latest == subject.latest_version
    IN  derived.update =
           IF subject.ignored THEN FALSE
           ELSE IF absent(installed) \/ absent(latest) THEN FALSE
           ELSE LexSmaller(parse_version(installed[1]), parse_version(latest[1]))

IsNone(val) == val = Null

IsNoneOrEmpty(val) == val = Null \/ val = Str(<<>>)

PrefixExample ==
    /\ compare_versions(V_1_2, V_1_2_0) = -1
    /\ is_update_available([NoSubject EXCEPT !.installed_version = Str(V_1_2),
                                             !.latest_version = Str(V_1_2_0)])

\* C17 as stated: is_update_available(app) is false if the app is ignored,
\* false if installed_version or latest_version is absent, and otherwise
\* true exactly when the parsed integer tuple of installed_version is
\* lexicographically smaller than that of latest_version, a strict prefix
\* counting as smaller (installed '1.2', latest '1.2.0' gives true;
\* compare_versions('1.2', '1.2.0') = -1).
C17_AsStated ==
    /\ "is_update_available" \in derived.read => UpdateDecidedBy(IsNone)
    /\ PrefixExample

\* C17: the same, where a version field that is the empty string counts as
\* absent.
C17_UpdateAvailable ==
    /\ "is_update_available" \in derived.read => UpdateDecidedBy(IsNoneOrEmpty)
    /\ "compare" \in derived.read =>
         LET p1 == parse_version(subject.installed_version[1])
             p2 == parse_version(subject.latest_version[1])
         IN  /\ derived.compare = -1 <=> LexSmaller(p1, p2)
             /\ derived.compare = 1 <=> LexSmaller(p2, p1)
             /\ derived.compare = 0 <=> p1 = p2
    /\ PrefixExample

\* C17 witness: is_update_available answered true for installed '1.2' and
\* latest '1.2.0'
C17_Witness ==
    /\ "is_update_available" \in derived.read
    /\ subject.installed_version = Str(V_1_2)
    /\ subject.latest_version = Str(V_1_2_0)
    /\ ~subject.ignored
    /\ derived.update

----------------------------------------------------------------------------
(* Properties of the import and export commands *)

\* the file the last import command read
ImportedFile == IF report.from_export THEN export_file ELSE import_file

\* the last command was an import that read a JSON envelope
ImportedEnvelope(merge) ==
    /\ report.command = "import"
    /\ report.merge = merge
    /\ ImportedFile.exists /\ ImportedFile.json

\* the store holds the apps of the envelope, and those the export command
\* had loaded when the envelope is the one it wrote
StoreIsEnvelope ==
    /\ apps_of(stored) = apps_of(ImportedFile.apps)
    /\ report.from_export => apps_of(stored) = export_file.exported

\* C18 as stated: import without --merge wholly replaces the store: for any
\* prior store and any valid envelope, also one whose apps list is empty, the
\* stored list after the command equals the envelope's list, so export
\* followed by import reproduces the exported set.
C18_AsStated == ImportedEnvelope(FALSE) => StoreIsEnvelope

\* C18: the same for a valid envelope whose apps list is not empty; with an
\* empty apps list the command leaves the store as it was.
C18_ReplacesStore ==
    ImportedEnvelope(FALSE) =>
        IF ImportedFile.apps # <<>> THEN StoreIsEnvelope ELSE stored = import_pre

\* C18 witness: the store had changed since the export, and importing the
\* exported file put the exported apps back
C18_Witness ==
    /\ ImportedEnvelope(FALSE)
    /\ report.from_export
    /\ report.message = "replaced"
    /\ stored # import_pre
    /\ Len(stored) = 2

\* apps a and b have the same id, winget_id, github_repo or homebrew_formula
SharesIdentifier(a, b) ==
    \/ a.id = b.id
    \/ Present(a.winget_id) /\ a.winget_id = b.winget_id
    \/ Present(a.github_repo) /\ a.github_repo = b.github_repo
    \/ Present(a.homebrew_formula) /\ a.homebrew_formula = b.homebrew_formula

\* C19 as stated: import --merge keeps every stored entry unchanged, and no
\* entry it adds shares its id, winget_id, github_repo or homebrew_formula
\* with another stored entry, stored before the merge or added earlier in it.
C19_AsStated ==
    (ImportedEnvelope(TRUE) /\ report.message = "merged") =>
        /\ Len(stored) >= Len(import_pre)
        /\ SubSeq(stored, 1, Len(import_pre)) = import_pre
        /\ \A i \in (Len(import_pre) + 1)..Len(stored) :
              \A j \in 1..Len(stored) :
                  j # i => ~SharesIdentifier(apps_of(stored)[i], apps_of(stored)[j])

\* C20 as stated: the counts import --merge reports are exact: added is the
\* number of entries the store grew by, skipped the number of imported
\* entries not added, and added plus skipped the number of entries in the
\* file, also for a file that repeats an id.
C20_AsStated ==
    (ImportedEnvelope(TRUE) /\ report.message = "merged") =>
        /\ report.added = Len(stored) - Len(import_pre)
        /\ report.skipped = report.entries - (Len(stored) - Len(import_pre))
        /\ report.added + report.skipped = report.entries

----------------------------------------------------------------------------
(* Properties of the check command's summary *)

\* the apps of the pass that are not ignored and whose check succeeded with a
\* version other than the installed one
FoundUpdates ==
    {i \in 1..Len(batch_pre) :
        /\ ~batch_pre[i].ignored
        /\ \E k \in 1..Len(results) :
              /\ results[k].app = i
              /\ succeeded(results[k].info)
              /\ results[k].info.latest_version # batch_pre[i].installed_version}

\* the check command printed the summary of the pass that ended last
Summarised == batch_pc = "done" /\ summary.pass = passes

\* C21 as stated: the summary and the notification of the check command
\* reflect the pass: when it found an app that is not ignored and has a
\* newer version, the summary lists the app with updates_count at least 1
\* and --notify sends the updates-available notification; the all-up-to-date
\* summary and notification occur only when there is no such app.
C21_AsStated ==
    Summarised =>
        /\ FoundUpdates # {} =>
              /\ \A i \in FoundUpdates : \E k \in 1..Len(summary.listed) : summary.listed[k] = i
              /\ summary.updates_count >= 1
              /\ summary.notify => summary.notification = "notify_updates_available"
        /\ (summary.all_up_to_date \/ summary.notification = "notify_all_up_to_date")
              => FoundUpdates = {}

----------------------------------------------------------------------------
(* Properties of the dashboard *)

\* C22 as stated: main, add-app, detail and scan are registered at startup
\* (push_screen finds each of them), so from the main screen key 'a' moves the stack to [main, add-app], key
\* 's' moves it to [main, scan], and cancel on the modal returns it to [main].
C22_AsStated ==
    /\ dash_event = "action_add_app" => screen_stack = <<"main", "add-app">>
    /\ dash_event = "action_scan_apps" => screen_stack = <<"main", "scan">>
    /\ dash_event = "action_cancel" => screen_stack = <<"main">>

\* the checks of the refresh the shell's check_app has answered
Answered == {i \in 1..MaxApps : check_one[i].response # <<>>}

\* C23 as stated: for a tracked app of any source and the same response of
\* the outside, the result of the dashboard shell's check_app equals the
\* result of the service's check_app, the shell only forwarding to the service.
C23_AsStated ==
    \A i \in Answered :
        shell_check_app(check_one[i].source, check_one[i].response)
            = service_check_app(check_one[i].source, check_one[i].response)

\* a step of action_refresh: key 'r' on the main screen
RefreshRequest == dash_event' = "action_refresh" /\ keys' = keys + 1

\* C24: at most one dashboard refresh is in progress at any time, and a
\* refresh request made while the guard is set starts no check task and
\* changes neither the list, the guard, the checks, the store nor the stack.
C24_OneRefreshAtATime ==
    /\ [](running <= 1 /\ (running = 1 => is_checking))
    /\ [][(RefreshRequest /\ is_checking) =>
              UNCHANGED <<screen_apps, is_checking, running, refresh_pc, check_one, stored,
                          screen_stack, dash_exc>>]_vars

\* C24 witness: key 'r' was pressed while the checks of a refresh were running
C24_Witness ==
    /\ dash_event = "action_refresh"
    /\ is_checking
    /\ running = 1
    /\ refresh_pc = "gather"
    /\ \E i \in 1..MaxApps : check_one[i].pc = "checking"

\* C25 as stated: every refresh that sets the guard eventually clears it
\* once its checks have finished, whatever their outcomes and whether or
\* not the final save succeeds, so a later refresh request is not blocked
\* forever (a session that a KeyError ended apart).
C25_AsStated == is_checking ~> (~is_checking \/ dash_exc # "")

\* C26 as stated: during a refresh the result of the check dispatched for an
\* app is written only to the in-memory entry with that app's id: no delete,
\* toggle-ignore or reload between the dispatch and the completion makes it
\* land on another app's entry or on a position that no longer exists.
C26_AsStated ==
    \A i \in 1..MaxApps : check_one[i].wrote # "" => check_one[i].wrote = check_one[i].id

\* C27: when a dashboard refresh completes, the persisted store holds the
\* result of the check of every app checked in that refresh and still tracked,
\* and every app added through the add-app screen while the refresh ran
C27_AsStated ==
    refresh_pc = "done" =>
        /\ \A i \in 1..MaxApps :
              check_one[i].pc = "done" =>
                 \A j \in 1..Len(stored) :
                    apps_of(stored)[j].id = check_one[i].id =>
                       /\ apps_of(stored)[j].latest_version = check_one[i].info.latest_version
                       /\ apps_of(stored)[j].release_url = check_one[i].info.release_url
                       /\ apps_of(stored)[j].last_error = check_one[i].info.error
        /\ \A id \in added_during : \E j \in 1..Len(stored) : apps_of(stored)[j].id = id

----------------------------------------------------------------------------
(* Properties of the ids and identifiers of the store *)

\* C28: after any sequence of import, import --merge and export commands on
\* a store whose ids are distinct, no two entries of the persisted store have
\* the same id
C28_AsStated == DistinctIds(apps_of(stored))

\* C29: a scan import (scan, scan --all, Add Selected) never adds an entry
\* whose package identifier is already tracked: no entry it added shares its
\* winget_id with another tracked entry, also when the scan output lists an
\* identifier twice or in both partitions
C29_AsStated ==
    scan_call.command # "" =>
        \A i \in (Len(scan_pre) + 1)..Len(stored) :
           \A j \in 1..Len(stored) :
              j # i => apps_of(stored)[i].winget_id # apps_of(stored)[j].winget_id

----------------------------------------------------------------------------
(* Properties of the cache of checkers *)

\* C30: the service creates at most one checker instance per source over
\* its lifetime, and every resolution of a source, by whatever method and in
\* whatever order, returns the same cached instance
C30_OneInstancePerSource ==
    /\ \A source \in AppSource : created[source] <= 1
    /\ \A m1, m2 \in Methods :
          \A p1 \in resolved[m1], p2 \in resolved[m2] :
             p1[1] = p2[1] => p1[2] = p2[2] /\ p1[2] = _instances[p1[1]]

\* two methods have resolved one source, and a third resolution of another
\* source has been made
C30_Witness ==
    \E m1, m2 \in Methods, source \in AppSource :
       /\ m1 # m2
       /\ <<source, 1>> \in resolved[m1] \cap resolved[m2]
       /\ created[source] = 1
       /\ \E other \in AppSource \ {source} : created[other] = 1

============================================================================
